---- MODULE Spec2Model ----
(***************************************************************************)
(* Threat-score backfill of unifi-log-insight (receiver/backfill.py) with  *)
(* the lookup client and the threat store it drives.                       *)
(*                                                                         *)
(* Tables are functions: logs from row ids to rows, ip_threats from the    *)
(* IPs that have a row to that row.  A nullable column holds NULL (<<>>)   *)
(* or Some(v) (<<v>>), so SQL's IS NULL / COALESCE are modelled as such.   *)
(***************************************************************************)
EXTENDS Integers, Sequences, FiniteSets, TLC

\* ------------------------------------------------------------------ bounds
MaxBudget == 2
MaxRows == 27
MaxSeederBudget == 1
MaxRetryBudget == 1
\* _write_audit calls begun in a behaviour; how far under the cleanup threshold
\* the counter may start.
MaxAuditCalls == 8
AuditHead == 4
\* The seconds that pass in one step of the clock.
TickSeconds == 60

\* --------------------------------------------------------- program constants
STALE_REENRICH_BATCH == 25
BACKFILL_INTERVAL_SECONDS == 1800
\* time.sleep(60): the initial delay of _run_loop
INITIAL_DELAY_SECONDS == 60
\* if _audit_cleanup_counter >= 100
AUDIT_CLEANUP_EVERY == 100

\* ------------------------------------------------------------ SQL primitives
NULL == <<>>
Some(v) == <<v>>
COALESCE(a, b) == IF a # NULL THEN a ELSE b
Min(a, b) == IF a <= b THEN a ELSE b

\* array_length(arr, 1): NULL for a NULL or an empty array, else its length.
array_length(arr) == IF arr = NULL \/ Len(arr[1]) = 0 THEN NULL ELSE Some(Len(arr[1]))

\* host(inet): the bare address of a non-NULL inet column.
host(col) == col[1]

\* --------------------------------------------------------------- the columns
AbuseFields ==
    {"abuse_usage_type", "abuse_hostnames", "abuse_total_reports",
     "abuse_last_reported", "abuse_is_whitelisted", "abuse_is_tor"}

PublicIPs == {"1.1.1.1", "2.2.2.2", "3.3.3.3"}
PrivateIPs == {"10.0.0.1"}
IPs == PublicIPs \cup PrivateIPs

\* enrichment.is_public_ip: private, loopback and link-local addresses are not.
is_public_ip(ip) == ip \notin PrivateIPs

\* The six abuse columns, usage type u and the other five v.
Abuse(u, v) ==
    [abuse_usage_type |-> u, abuse_hostnames |-> v, abuse_total_reports |-> v,
     abuse_last_reported |-> v, abuse_is_whitelisted |-> v, abuse_is_tor |-> v]

\* Record concatenation (disjoint fields).
Join(r, s) == [f \in DOMAIN r \cup DOMAIN s |-> IF f \in DOMAIN r THEN r[f] ELSE s[f]]

\* ------------------------------------------- _patch_from_cache (steps 1, 6)
\* WHERE logs.<col> = t.ip AND logs.threat_score IS NULL
\*   AND logs.log_type = 'firewall' AND logs.rule_action = 'block'
\* (variant: the IS NULL test on threat_score is missing)
WhereNullScoreAnyScore(l, T, col) ==
    /\ l[col] # NULL
    /\ host(l[col]) \in DOMAIN T
    /\ l.log_type = "firewall"
    /\ l.rule_action = "block"

WhereNullScore(l, T, col) ==
    /\ l[col] # NULL
    /\ host(l[col]) \in DOMAIN T
    /\ l.threat_score = NULL
    /\ l.log_type = "firewall"
    /\ l.rule_action = "block"

\* (variant: the abuse columns are assigned from t without COALESCE)
SetScoreOverwrite(l, t) ==
    [f \in DOMAIN l |->
        CASE f = "threat_score" -> t.threat_score
          [] f = "threat_categories" -> t.threat_categories
          [] f \in AbuseFields -> t[f]
          [] OTHER -> l[f]]

\* SET threat_score = t.threat_score, threat_categories = t.threat_categories,
\*     abuse_x = COALESCE(logs.abuse_x, t.abuse_x) for the six abuse columns
SetScore(l, t) ==
    [f \in DOMAIN l |->
        CASE f = "threat_score" -> t.threat_score
          [] f = "threat_categories" -> t.threat_categories
          [] f \in AbuseFields -> COALESCE(l[f], t[f])
          [] OTHER -> l[f]]

\* One UPDATE ... FROM ip_threats t statement joined on column col.
UpdateScore(L, T, col) ==
    [i \in DOMAIN L |->
        IF WhereNullScore(L[i], T, col) THEN SetScore(L[i], T[host(L[i][col])]) ELSE L[i]]

RowCountScore(L, T, col) == Cardinality({i \in DOMAIN L : WhereNullScore(L[i], T, col)})

\* (variant: the passes in the other order)
PatchFromCacheDstFirst(L, T) ==
    LET L1 == UpdateScore(L, T, "dst_ip")
    IN  [rows |-> UpdateScore(L1, T, "src_ip"),
         patched |-> RowCountScore(L, T, "dst_ip") + RowCountScore(L1, T, "src_ip")]

\* (variant: the first pass alone)
PatchFromCacheSrcOnly(L, T) ==
    [rows |-> UpdateScore(L, T, "src_ip"), patched |-> RowCountScore(L, T, "src_ip")]

\* Pass 1 on src_ip, then pass 2 on dst_ip over what pass 1 left; the rows
\* after both and the sum of the two rowcounts.
patch_from_cache(L, T) ==
    LET L1 == UpdateScore(L, T, "src_ip")
    IN  [rows |-> UpdateScore(L1, T, "dst_ip"),
         patched |-> RowCountScore(L, T, "src_ip") + RowCountScore(L1, T, "dst_ip")]

\* --------------------------------------------- _patch_abuse_fields (step 2)
\* WHERE logs.<col> = t.ip AND logs.threat_score IS NOT NULL
\*   AND logs.abuse_usage_type IS NULL AND t.abuse_usage_type IS NOT NULL
\*   AND logs.log_type = 'firewall' AND logs.rule_action = 'block'
WhereMissingAbuse(l, T, col) ==
    /\ l[col] # NULL
    /\ host(l[col]) \in DOMAIN T
    /\ l.threat_score # NULL
    /\ l.abuse_usage_type = NULL
    /\ T[host(l[col])].abuse_usage_type # NULL
    /\ l.log_type = "firewall"
    /\ l.rule_action = "block"

\* SET abuse_x = t.abuse_x for the six abuse columns, threat_categories =
\*     CASE WHEN t's array is non-empty AND logs' array is NULL or empty
\*          THEN t.threat_categories ELSE logs.threat_categories END
SetAbuse(l, t) ==
    [f \in DOMAIN l |->
        CASE f \in AbuseFields -> t[f]
          [] f = "threat_categories" ->
                IF /\ t.threat_categories # NULL
                   /\ array_length(t.threat_categories) # NULL
                   /\ (\/ l.threat_categories = NULL
                       \/ array_length(l.threat_categories) = NULL
                       \/ array_length(l.threat_categories) = Some(0))
                THEN t.threat_categories ELSE l.threat_categories
          [] OTHER -> l[f]]

UpdateAbuse(L, T, col) ==
    [i \in DOMAIN L |->
        IF WhereMissingAbuse(L[i], T, col) THEN SetAbuse(L[i], T[host(L[i][col])]) ELSE L[i]]

RowCountAbuse(L, T, col) == Cardinality({i \in DOMAIN L : WhereMissingAbuse(L[i], T, col)})

\* (variant: the first pass alone)
PatchAbuseSrcOnly(L, T) ==
    [rows |-> UpdateAbuse(L, T, "src_ip"), patched |-> RowCountAbuse(L, T, "src_ip")]

patch_abuse_fields(L, T) ==
    LET L1 == UpdateAbuse(L, T, "src_ip")
    IN  [rows |-> UpdateAbuse(L1, T, "dst_ip"),
         patched |-> RowCountAbuse(L, T, "src_ip") + RowCountAbuse(L1, T, "dst_ip")]

\* ------------------------------------ _reenrich_stale_threats: the SELECT
\* WHERE abuse_usage_type IS NULL AND (threat_categories IS NULL OR
\*   threat_categories = '{}' OR threat_categories = '{"blacklist"}')
\*   AND threat_score > 0
\* (variant: what the docstring says, blacklist-only rows are left out)
IsStaleNoBlacklist(t) ==
    /\ t.abuse_usage_type = NULL
    /\ \/ t.threat_categories = NULL
       \/ t.threat_categories = Some(<<>>)
    /\ t.threat_score # NULL
    /\ t.threat_score[1] > 0

IsStale(t) ==
    /\ t.abuse_usage_type = NULL
    /\ \/ t.threat_categories = NULL
       \/ t.threat_categories = Some(<<>>)
       \/ t.threat_categories = Some(<<"blacklist">>)
    /\ t.threat_score # NULL
    /\ t.threat_score[1] > 0

\* (variant: every row with a score above 0 is a candidate, stale or not)
StaleCandidatesAnyRow(T) ==
    {ip \in DOMAIN T : T[ip].threat_score # NULL /\ T[ip].threat_score[1] > 0}

StaleCandidates(T) == {ip \in DOMAIN T : IsStale(T[ip])}

\* The orderings of a finite set: what a SELECT without ORDER BY may return.
Orderings(S) ==
    {s \in [1..Cardinality(S) -> S] : \A i, j \in 1..Cardinality(S) : i # j => s[i] # s[j]}

\* ORDER BY threat_score DESC LIMIT n over the rows C: every list the
\* statement may return (rows of equal score come in any order), built from
\* its first row on: a row of the highest score, then the list for the rest.
RECURSIVE SelectStaleFrom(_, _, _)
SelectStaleFrom(T, C, n) ==
    IF n = 0 \/ C = {} THEN {<<>>}
    ELSE LET top == {ip \in C : \A o \in C : T[o].threat_score[1] <= T[ip].threat_score[1]}
         IN  UNION {{<<ip>> \o s : s \in SelectStaleFrom(T, C \ {ip}, n - 1)} : ip \in top}

SelectStale(T, n) == SelectStaleFrom(T, StaleCandidates(T), n)

\* (variant: the rows are backdated and their score is cleared)
ForceExpireClearScore(T, ips) ==
    [ip \in DOMAIN T |->
        IF \E i \in 1..Len(ips) : ips[i] = ip
        THEN [T[ip] EXCEPT !.looked_up_at = "expired", !.threat_score = NULL] ELSE T[ip]]

\* (variant: the rows are deleted, so that the next lookup finds none)
ForceExpireDelete(T, ips) ==
    [ip \in {x \in DOMAIN T : \A i \in 1..Len(ips) : ips[i] # x} |-> T[ip]]

\* UPDATE ip_threats SET looked_up_at = NOW() - INTERVAL '30 days'
\*   WHERE ip = ANY(stale_ips)
ForceExpire(T, ips) ==
    [ip \in DOMAIN T |->
        IF \E i \in 1..Len(ips) : ips[i] = ip
        THEN [T[ip] EXCEPT !.looked_up_at = "expired"] ELSE T[ip]]

\* ------------------------------------------------ _find_orphans (step 4)
\* One branch of the UNION: l.<col> of the rows with l.threat_score IS NULL,
\* log_type 'firewall', rule_action 'block', l.<col> IS NOT NULL and no
\* ip_threats row joined on it (t.ip IS NULL).
OrphanBranch(L, T, col) ==
    {host(L[i][col]) : i \in {i \in DOMAIN L :
        /\ L[i].threat_score = NULL
        /\ L[i].log_type = "firewall"
        /\ L[i].rule_action = "block"
        /\ L[i][col] # NULL
        /\ host(L[i][col]) \notin DOMAIN T}}

\* (variant: the is_public_ip filter is missing)
OrphanSetUnfiltered(L, T) ==
    OrphanBranch(L, T, "src_ip") \cup OrphanBranch(L, T, "dst_ip")

\* SELECT DISTINCT host(ip) over both branches, then the is_public_ip filter.
OrphanSet(L, T) ==
    {ip \in OrphanBranch(L, T, "src_ip") \cup OrphanBranch(L, T, "dst_ip") : is_public_ip(ip)}

\* (variant: only the src_ip branch of the UNION)
FindOrphansSrcOnly(L, T) ==
    Orderings({ip \in OrphanBranch(L, T, "src_ip") : is_public_ip(ip)})

\* The list _find_orphans may return: the rows come in no stated order.
find_orphans(L, T) == Orderings(OrphanSet(L, T))

\* ---------------------------------------------- ip_threats rows and upserts
\* What the per-IP check endpoint may answer on success: a score, categories
\* and the abuse fields (the provider leaves usageType null for some IPs).
Responses ==
    {Join([threat_score |-> Some(60), threat_categories |-> Some(<<>>)], Abuse(NULL, Some(1))),
     Join([threat_score |-> Some(80), threat_categories |-> Some(<<"ssh">>)], Abuse(Some(2), Some(2)))}

\* A row written before the abuse columns existed; a blacklist seed.
PreVerboseRow ==
    Join([threat_score |-> Some(60), threat_categories |-> Some(<<>>), looked_up_at |-> "fresh"],
         Abuse(NULL, NULL))
BlacklistRow ==
    Join([threat_score |-> Some(100), threat_categories |-> Some(<<"blacklist">>),
          looked_up_at |-> "fresh"], Abuse(NULL, NULL))

\* (variant: nothing is written)
UpsertNothing(T, ip, r) == T

\* (variant: the new data replaces the row, NULL fields included)
UpsertRowClobber(T, ip, r) ==
    [f \in DOMAIN r \cup {"looked_up_at"} |-> IF f = "looked_up_at" THEN "fresh" ELSE r[f]]

\* ThreatStore.upsert: score, categories and looked_up_at are overwritten; an
\* abuse field the new data leaves NULL keeps the value the row had.
UpsertRow(T, ip, r) ==
    [f \in DOMAIN r \cup {"looked_up_at"} |->
        CASE f = "looked_up_at" -> "fresh"
          [] f \in AbuseFields /\ ip \in DOMAIN T -> COALESCE(r[f], T[ip][f])
          [] OTHER -> r[f]]

upsert(T, ip, r) ==
    [x \in DOMAIN T \cup {ip} |-> IF x = ip THEN UpsertRow(T, ip, r) ELSE T[x]]

\* A table without rows.
EmptyTable == [ip \in {} |-> NULL]

\* ------------------------------------------------------------------- state
VARIABLES
    logs,               \* the logs table: row id -> row
    ip_threats,         \* the ip_threats table: ip -> row
    cache,              \* AbuseIPDBEnricher.cache, the in-process mirror: ip -> result
    remaining_budget,   \* AbuseIPDBEnricher.remaining_budget
    inflight,           \* caller -> NULL or Some(ip): its external call in progress
    pc,                 \* where the backfill thread is
    patched_null, patched_abuse, reenriched, patched_final,
    looked_up, failed, skipped,     \* _run_once's counts
    stale_ips, orphans,             \* the lists of steps 3 and 4
    todo,               \* what is left of the lookup loop the thread is in
    notice,             \* what the running (or last) cycle logged at its end
    seeder,             \* the BlacklistFetcher and its fetch_and_store call
    api,                \* the HTTP API: its request in progress, its last response
    timer,              \* seconds left of the time.sleep the backfill thread is in
    audit,              \* routes/mcp.py: _audit_cleanup_counter and the _write_audit calls
    hist                \* history: what the properties below read

vars == <<logs, ip_threats, cache, remaining_budget, inflight, pc, patched_null,
          patched_abuse, reenriched, patched_final, looked_up, failed, skipped,
          stale_ips, orphans, todo, notice, seeder, api, timer, audit, hist>>

counts == <<patched_null, patched_abuse, reenriched, patched_final, looked_up, failed, skipped>>
lists == <<stale_ips, orphans, todo>>
client == <<cache, remaining_budget, inflight>>

Callers == {"backfill", "live"}

\* ------------------------------------------------------------ initial state
\* A BlacklistFetcher as constructed, with an API key or without: no call of
\* fetch_and_store is running, none has returned yet.  requested: the call
\* sent its GET; data: the data list the call got; returned, raised and last:
\* how the last call ended.
Seeder(enabled) ==
    [enabled |-> enabled, pc |-> "idle", requested |-> FALSE, data |-> <<>>,
     returned |-> NULL, raised |-> FALSE, last |-> "none"]

\* The HTTP API with no request in progress and none answered yet.
NoRequest ==
    [pc |-> "idle", params |-> NULL, status |-> NULL, total |-> NULL, threats |-> <<>>]

\* routes/mcp.py as imported, or after k audit rows written one call after the
\* other since the last cleanup: the counter is k, no _write_audit call is
\* running.  w: where each caller is in _write_audit and the counter value it
\* loaded; since: INSERTs since the last cleanup; calls: calls begun; gap:
\* what since was at the last cleanup; overlap: a call began while another
\* ran; delfail: a cleanup's DELETE raised.
Writers == {"w1", "w2"}

NoAudit(k) ==
    [counter |-> k, w |-> [x \in Writers |-> [pc |-> "idle", tmp |-> 0]],
     since |-> k, calls |-> 0, cleanups |-> 0, gap |-> NULL,
     overlap |-> FALSE, delfail |-> FALSE]

LogRow(src, dst, type, action) ==
    Join([src_ip |-> src, dst_ip |-> dst, log_type |-> type, rule_action |-> action,
          threat_score |-> NULL, threat_categories |-> NULL], Abuse(NULL, NULL))

\* Tables the daemon may find when it starts: rows ingested without a score
\* (an inbound and an outbound block, and a third row that is another block,
\* an allowed connection or a DNS query).
InitLogs ==
    {<<LogRow(Some("1.1.1.1"), Some("2.2.2.2"), "firewall", "block"),
       LogRow(Some("10.0.0.1"), Some("3.3.3.3"), "firewall", "block"),
       l3>> :
        l3 \in {LogRow(Some("3.3.3.3"), Some("10.0.0.1"), "firewall", "block"),
                LogRow(Some("2.2.2.2"), Some("1.1.1.1"), "firewall", "allow"),
                LogRow(Some("2.2.2.2"), Some("3.3.3.3"), "dns", "none")}}

\* A row whose looked_up_at is older than the TTL.
Expired(r) == [r EXCEPT !.looked_up_at = "expired"]

\* The ip_threats table found at the start: a pre-verbose row, within its TTL
\* or past it, and a blacklist seed, each there or not.
InitThreats ==
    {T \in UNION {[D -> {PreVerboseRow, Expired(PreVerboseRow), BlacklistRow}] :
                     D \in SUBSET {"1.1.1.1", "2.2.2.2"}} :
        /\ "1.1.1.1" \in DOMAIN T => T["1.1.1.1"] \in {PreVerboseRow, Expired(PreVerboseRow)}
        /\ "2.2.2.2" \in DOMAIN T => T["2.2.2.2"] = BlacklistRow}

Init ==
    /\ logs \in InitLogs
    /\ ip_threats \in InitThreats
    /\ cache = EmptyTable
    /\ remaining_budget \in 0..MaxBudget
    /\ inflight = [c \in Callers |-> NULL]
    /\ pc = "initial_delay"
    /\ patched_null = 0 /\ patched_abuse = 0 /\ reenriched = 0 /\ patched_final = 0
    /\ looked_up = 0 /\ failed = 0 /\ skipped = 0
    /\ stale_ips = <<>> /\ orphans = <<>> /\ todo = <<>>
    /\ notice = "none"
    /\ seeder = Seeder(TRUE)
    /\ api = NoRequest
    /\ timer = INITIAL_DELAY_SECONDS
    /\ audit = NoAudit(0)
    /\ hist = [budget0 |-> remaining_budget, calls |-> 0,
               cycle_budget |-> 0, cycle_calls |-> 0, quiet |-> 0, final |-> FALSE,
               pending |-> {}]

\* ------------------------------------------------------------ the history
\* hist records, for the properties: budget0, the budget of the quota window
\* at its start; calls, the external calls made since; cycle_budget and
\* cycle_calls, the budget at the start of the running cycle and the calls
\* the backfill thread made in it; final, whether step 6 patched in it; and
\* quiet, the number (to 2) of cycles in a row that ran to their end with no
\* data arriving since the first of them started (-1: data arrived, or the
\* cycle failed, while one was running); pending, the IPs step 3 backdated
\* and evicted for which no lookup was called since.
Running == pc \notin {"initial_delay", "sleep"}
Arrived(q) == IF Running THEN -1 ELSE 0
Ended(q) == IF q = -1 THEN -1 ELSE Min(q + 1, 2)

\* ------------------------------------------------- EnrichmentClient.lookup
\* What lookup hands back: the row without its bookkeeping column.
Result(row) == [f \in DOMAIN row \ {"looked_up_at"} |-> row[f]]

\* (variant: only the mirror is consulted, not the store)
CachedMirrorOnly(ip) == IF ip \in DOMAIN cache THEN Some(cache[ip]) ELSE NULL

\* The record lookup returns without spending budget, or NULL: the mirror's
\* entry, else the stored row unless it is expired.
Cached(ip) ==
    IF ip \in DOMAIN cache THEN Some(cache[ip])
    ELSE IF ip \in DOMAIN ip_threats /\ ip_threats[ip].looked_up_at = "fresh"
         THEN Some(Result(ip_threats[ip]))
         ELSE NULL

\* (variant: the test lets the call through at 0)
HasBudgetOffByOne(b) == b >= 0

\* The budget test of lookup, made in one step with the decrement.
HasBudget(b) == b > 0

\* (variant: an IP whose lookup returned absent is tried again at once)
ReturnedRetry(result) ==
    IF result = NULL
    THEN UNCHANGED <<reenriched, looked_up, failed, todo, pc, patched_null, patched_abuse,
                     patched_final, skipped, stale_ips, orphans, notice>>
    ELSE /\ IF pc = "step3_lookup"
            THEN /\ reenriched' = reenriched +
                         (IF result[1].abuse_usage_type # NULL THEN 1 ELSE 0)
                 /\ UNCHANGED <<looked_up, failed>>
            ELSE /\ looked_up' = looked_up + 1
                 /\ UNCHANGED <<failed, reenriched>>
         /\ todo' = Tail(todo)
         /\ pc' = IF Tail(todo) # <<>> THEN pc
                  ELSE IF pc = "step3_lookup" THEN "step4" ELSE "step6"
         /\ UNCHANGED <<patched_null, patched_abuse, patched_final, skipped,
                        stale_ips, orphans, notice>>

\* (variant: step 3 counts every lookup that returned a result)
ReturnedAnyResult(result) ==
    /\ IF pc = "step3_lookup"
       THEN /\ reenriched' = reenriched + (IF result # NULL THEN 1 ELSE 0)
            /\ UNCHANGED <<looked_up, failed>>
       ELSE /\ IF result # NULL /\ "threat_score" \in DOMAIN result[1]
               THEN looked_up' = looked_up + 1 /\ UNCHANGED failed
               ELSE failed' = failed + 1 /\ UNCHANGED looked_up
            /\ UNCHANGED reenriched
    /\ todo' = Tail(todo)
    /\ pc' = IF Tail(todo) # <<>> THEN pc
             ELSE IF pc = "step3_lookup" THEN "step4" ELSE "step6"
    /\ UNCHANGED <<patched_null, patched_abuse, patched_final, skipped,
                   stale_ips, orphans, notice>>

\* (variant: step 5 counts every lookup that returned as looked up)
ReturnedAllLookedUp(result) ==
    /\ IF pc = "step3_lookup"
       THEN /\ reenriched' = reenriched +
                    (IF result # NULL /\ result[1].abuse_usage_type # NULL THEN 1 ELSE 0)
            /\ UNCHANGED <<looked_up, failed>>
       ELSE /\ looked_up' = looked_up + 1
            /\ UNCHANGED <<failed, reenriched>>
    /\ todo' = Tail(todo)
    /\ pc' = IF Tail(todo) # <<>> THEN pc
             ELSE IF pc = "step3_lookup" THEN "step4" ELSE "step6"
    /\ UNCHANGED <<patched_null, patched_abuse, patched_final, skipped,
                   stale_ips, orphans, notice>>

\* (variant: the loop is left at the first lookup that returns absent)
ReturnedBreak(result) ==
    /\ IF pc = "step3_lookup"
       THEN /\ reenriched' = reenriched +
                    (IF result # NULL /\ result[1].abuse_usage_type # NULL THEN 1 ELSE 0)
            /\ UNCHANGED <<looked_up, failed>>
       ELSE /\ IF result # NULL /\ "threat_score" \in DOMAIN result[1]
               THEN looked_up' = looked_up + 1 /\ UNCHANGED failed
               ELSE failed' = failed + 1 /\ UNCHANGED looked_up
            /\ UNCHANGED reenriched
    /\ todo' = Tail(todo)
    /\ pc' = IF Tail(todo) # <<>> /\ result # NULL THEN pc
             ELSE IF pc = "step3_lookup" THEN "step4" ELSE "step6"
    /\ UNCHANGED <<patched_null, patched_abuse, patched_final, skipped,
                   stale_ips, orphans, notice>>

\* The backfill loops' use of what lookup returned (NULL: absent), and the
\* move to the next IP or out of the loop.
\*   step 3: if result and result.get('abuse_usage_type'): reenriched += 1
\*   step 5: if result and 'threat_score' in result: looked_up += 1 else failed += 1
Returned(result) ==
    /\ IF pc = "step3_lookup"
       THEN /\ reenriched' = reenriched +
                    (IF result # NULL /\ result[1].abuse_usage_type # NULL THEN 1 ELSE 0)
            /\ UNCHANGED <<looked_up, failed>>
       ELSE /\ IF result # NULL /\ "threat_score" \in DOMAIN result[1]
               THEN looked_up' = looked_up + 1 /\ UNCHANGED failed
               ELSE failed' = failed + 1 /\ UNCHANGED looked_up
            /\ UNCHANGED reenriched
    /\ todo' = Tail(todo)
    /\ pc' = IF Tail(todo) # <<>> THEN pc
             ELSE IF pc = "step3_lookup" THEN "step4" ELSE "step6"
    /\ UNCHANGED <<patched_null, patched_abuse, patched_final, skipped,
                   stale_ips, orphans, notice>>

LoopPcs == {"step3_lookup", "step5_lookup"}
InLoop == pc \in LoopPcs /\ todo # <<>>

\* (variant: no except clause, the error ends the thread)
Uncaught ==
    /\ pc' = "dead"
    /\ timer' = 0
    /\ notice' = "cycle_failed"
    /\ hist' = [hist EXCEPT !.quiet = -1]

\* (variant: after a failed cycle the next one starts at once)
CaughtNoSleep ==
    /\ pc' = "sleep"
    /\ timer' = 0
    /\ notice' = "cycle_failed"
    /\ hist' = [hist EXCEPT !.quiet = -1]

\* _run_loop's except clause: the error is logged and the loop goes on to
\* time.sleep(BACKFILL_INTERVAL_SECONDS).
Caught ==
    /\ pc' = "sleep"
    /\ timer' = BACKFILL_INTERVAL_SECONDS
    /\ notice' = "cycle_failed"
    /\ hist' = [hist EXCEPT !.quiet = -1]

\* The backfill thread calls lookup(ip) for the next IP of its loop: a cached
\* record or, without budget, absent comes back at once; else the external
\* call starts and the budget is spent.
BackfillLookup ==
    /\ InLoop
    /\ inflight["backfill"] = NULL
    /\ LET ip == Head(todo) IN
       IF Cached(ip) # NULL
       THEN /\ Returned(Cached(ip))
            /\ hist' = [hist EXCEPT !.pending = @ \ {ip}]
            /\ UNCHANGED client
       ELSE IF ~HasBudget(remaining_budget)
       THEN /\ Returned(NULL)
            /\ hist' = [hist EXCEPT !.pending = @ \ {ip}]
            /\ UNCHANGED client
       ELSE /\ remaining_budget' = remaining_budget - 1
            /\ inflight' = [inflight EXCEPT !["backfill"] = Some(ip)]
            /\ hist' = [hist EXCEPT !.calls = @ + 1, !.cycle_calls = @ + 1,
                                    !.pending = @ \ {ip}]
            /\ UNCHANGED <<cache, pc, counts, lists, notice>>
    /\ UNCHANGED <<logs, ip_threats>>
    /\ UNCHANGED <<seeder, api, timer, audit>>

\* The external call of the backfill thread's lookup answers with data: the
\* result is stored in ip_threats and in the mirror and returned.
BackfillLookupOk ==
    /\ inflight["backfill"] # NULL
    /\ \E r \in Responses :
        LET ip == host(inflight["backfill"]) IN
        /\ ip_threats' = upsert(ip_threats, ip, r)
        /\ cache' = [x \in DOMAIN cache \cup {ip} |-> IF x = ip THEN r ELSE cache[x]]
        /\ Returned(Some(r))
    /\ inflight' = [inflight EXCEPT !["backfill"] = NULL]
    /\ hist' = [hist EXCEPT !.quiet = Arrived(@)]
    /\ UNCHANGED <<logs, remaining_budget>>
    /\ UNCHANGED <<seeder, api, timer, audit>>

\* (variant: a 429 is taken for a transient failure, the budget stays)
BackfillLookup429BudgetKept ==
    /\ inflight["backfill"] # NULL
    /\ inflight' = [inflight EXCEPT !["backfill"] = NULL]
    /\ Returned(NULL)
    /\ UNCHANGED <<logs, ip_threats, cache, remaining_budget, hist>>
    /\ UNCHANGED <<seeder, api, timer, audit>>

\* It answers 429: the budget is zeroed, lookup returns absent.
BackfillLookup429 ==
    /\ inflight["backfill"] # NULL
    /\ remaining_budget' = 0
    /\ inflight' = [inflight EXCEPT !["backfill"] = NULL]
    /\ Returned(NULL)
    /\ UNCHANGED <<logs, ip_threats, cache, hist>>
    /\ UNCHANGED <<seeder, api, timer, audit>>

\* It times out or fails otherwise: lookup returns absent.
BackfillLookupTimeout ==
    /\ inflight["backfill"] # NULL
    /\ inflight' = [inflight EXCEPT !["backfill"] = NULL]
    /\ Returned(NULL)
    /\ UNCHANGED <<logs, ip_threats, cache, remaining_budget, hist>>
    /\ UNCHANGED <<seeder, api, timer, audit>>

\* lookup raises (the store fails under it): the error leaves the for loop
\* and _run_once, and _run_loop catches it.
BackfillLookupRaises ==
    /\ inflight["backfill"] # NULL
    /\ inflight' = [inflight EXCEPT !["backfill"] = NULL]
    /\ todo' = Tail(todo)
    /\ Caught
    /\ UNCHANGED <<logs, ip_threats, cache, remaining_budget, counts, stale_ips, orphans>>
    /\ UNCHANGED <<seeder, api, audit>>

\* The live request path calls lookup(ip) on a miss with budget left.
LiveLookup ==
    /\ inflight["live"] = NULL
    /\ \E ip \in PublicIPs :
        /\ Cached(ip) = NULL
        /\ HasBudget(remaining_budget)
        /\ inflight' = [inflight EXCEPT !["live"] = Some(ip)]
        /\ hist' = [hist EXCEPT !.calls = @ + 1, !.pending = @ \ {ip}]
    /\ remaining_budget' = remaining_budget - 1
    /\ UNCHANGED <<logs, ip_threats, cache, pc, counts, lists, notice>>
    /\ UNCHANGED <<seeder, api, timer, audit>>

LiveLookupOk ==
    /\ inflight["live"] # NULL
    /\ \E r \in Responses :
        LET ip == host(inflight["live"]) IN
        /\ ip_threats' = upsert(ip_threats, ip, r)
        /\ cache' = [x \in DOMAIN cache \cup {ip} |-> IF x = ip THEN r ELSE cache[x]]
    /\ inflight' = [inflight EXCEPT !["live"] = NULL]
    /\ hist' = [hist EXCEPT !.quiet = Arrived(@)]
    /\ UNCHANGED <<logs, remaining_budget, pc, counts, lists, notice>>
    /\ UNCHANGED <<seeder, api, timer, audit>>

LiveLookup429 ==
    /\ inflight["live"] # NULL
    /\ remaining_budget' = 0
    /\ inflight' = [inflight EXCEPT !["live"] = NULL]
    /\ UNCHANGED <<logs, ip_threats, cache, pc, counts, lists, notice, hist>>
    /\ UNCHANGED <<seeder, api, timer, audit>>

LiveLookupTimeout ==
    /\ inflight["live"] # NULL
    /\ inflight' = [inflight EXCEPT !["live"] = NULL]
    /\ UNCHANGED <<logs, ip_threats, cache, remaining_budget, pc, counts, lists, notice, hist>>
    /\ UNCHANGED <<seeder, api, timer, audit>>

\* --------------------------------------------------- _run_loop, _run_once
\* time.sleep(60) / time.sleep(BACKFILL_INTERVAL_SECONDS) ends (what was left
\* of it has passed) and the loop calls _run_once, whose counts start afresh.
WakeUp ==
    /\ pc \in {"initial_delay", "sleep"}
    /\ pc' = "step1"
    /\ timer' = 0
    /\ patched_null' = 0 /\ patched_abuse' = 0 /\ reenriched' = 0 /\ patched_final' = 0
    /\ looked_up' = 0 /\ failed' = 0 /\ skipped' = 0
    /\ stale_ips' = <<>> /\ orphans' = <<>> /\ todo' = <<>>
    /\ notice' = "none"
    /\ hist' = [hist EXCEPT !.cycle_budget = remaining_budget, !.cycle_calls = 0,
                            !.final = FALSE, !.quiet = IF @ = -1 THEN 0 ELSE @]
    /\ UNCHANGED <<logs, ip_threats, client>>
    /\ UNCHANGED <<seeder, api, audit>>

\* Step 1: patched_null = self._patch_from_cache()
Step1 ==
    /\ pc = "step1"
    /\ LET p == patch_from_cache(logs, ip_threats) IN
        /\ logs' = p.rows
        /\ patched_null' = p.patched
    /\ pc' = "step2"
    /\ UNCHANGED <<ip_threats, client, patched_abuse, reenriched, patched_final,
                   looked_up, failed, skipped, lists, notice, hist>>
    /\ UNCHANGED <<seeder, api, timer, audit>>

\* (variant: the orphans are looked for before the stale rows are re-enriched)
Step2ThenOrphans ==
    /\ pc = "step2"
    /\ LET p == patch_abuse_fields(logs, ip_threats) IN
        /\ logs' = p.rows
        /\ patched_abuse' = p.patched
    /\ pc' = "step4"
    /\ UNCHANGED <<ip_threats, client, patched_null, reenriched, patched_final,
                   looked_up, failed, skipped, lists, notice, hist>>
    /\ UNCHANGED <<seeder, api, timer, audit>>

\* Step 2: patched_abuse = self._patch_abuse_fields()
Step2 ==
    /\ pc = "step2"
    /\ LET p == patch_abuse_fields(logs, ip_threats) IN
        /\ logs' = p.rows
        /\ patched_abuse' = p.patched
    /\ pc' = "step3"
    /\ UNCHANGED <<ip_threats, client, patched_null, reenriched, patched_final,
                   looked_up, failed, skipped, lists, notice, hist>>
    /\ UNCHANGED <<seeder, api, timer, audit>>

\* (variant: the batch is as large as the budget)
BatchSizeUncapped(budget) == budget

\* batch_size = min(STALE_REENRICH_BATCH, budget)
BatchSize(budget) == Min(STALE_REENRICH_BATCH, budget)

\* (variant: no test of the budget, the batch is STALE_REENRICH_BATCH rows)
Step3SelectNoBudgetTest ==
    /\ pc = "step3"
    /\ \E sel \in SelectStale(ip_threats, STALE_REENRICH_BATCH) :
            /\ stale_ips' = sel
            /\ pc' = IF sel = <<>> THEN "step4" ELSE "step3_expire"
    /\ UNCHANGED <<logs, ip_threats, client, counts, orphans, todo, notice, hist>>
    /\ UNCHANGED <<seeder, api, timer, audit>>

\* Step 3, to the SELECT: without budget or without stale rows it returns 0.
Step3Select ==
    /\ pc = "step3"
    /\ LET budget == remaining_budget IN
       IF budget = 0
       THEN /\ stale_ips' = <<>>
            /\ pc' = "step4"
       ELSE \E sel \in SelectStale(ip_threats, BatchSize(budget)) :
            /\ stale_ips' = sel
            /\ pc' = IF sel = <<>> THEN "step4" ELSE "step3_expire"
    /\ UNCHANGED <<logs, ip_threats, client, counts, orphans, todo, notice, hist>>
    /\ UNCHANGED <<seeder, api, timer, audit>>

\* (variant: the rows are backdated but stay in the mirror)
Step3ExpireNoEvict ==
    /\ pc = "step3_expire"
    /\ ip_threats' = ForceExpire(ip_threats, stale_ips)
    /\ todo' = stale_ips
    /\ pc' = "step3_lookup"
    /\ hist' = [hist EXCEPT !.pending = @ \cup {stale_ips[i] : i \in 1..Len(stale_ips)}]
    /\ UNCHANGED <<logs, cache, remaining_budget, inflight, counts, stale_ips, orphans, notice>>
    /\ UNCHANGED <<seeder, api, timer, audit>>

\* Step 3: the stale rows are backdated and deleted from the mirror; the
\* lookup loop over them follows.
Step3Expire ==
    /\ pc = "step3_expire"
    /\ ip_threats' = ForceExpire(ip_threats, stale_ips)
    /\ cache' = [ip \in DOMAIN cache \ {stale_ips[i] : i \in 1..Len(stale_ips)} |-> cache[ip]]
    /\ todo' = stale_ips
    /\ pc' = "step3_lookup"
    /\ hist' = [hist EXCEPT !.pending = @ \cup {stale_ips[i] : i \in 1..Len(stale_ips)}]
    /\ UNCHANGED <<logs, remaining_budget, inflight, counts, stale_ips, orphans, notice>>
    /\ UNCHANGED <<seeder, api, timer, audit>>

\* Step 4: orphans = self._find_orphans()
Step4 ==
    /\ pc = "step4"
    /\ \E o \in find_orphans(logs, ip_threats) : orphans' = o
    /\ pc' = "step5"
    /\ UNCHANGED <<logs, ip_threats, client, counts, stale_ips, todo, notice, hist>>
    /\ UNCHANGED <<seeder, api, timer, audit>>

\* (variant: every orphan is taken, whatever the budget)
ToLookupAll(o, budget) == o

\* to_lookup = orphans[:budget] if budget > 0 else []
ToLookup(o, budget) == IF budget > 0 THEN SubSeq(o, 1, Min(budget, Len(o))) ELSE <<>>

\* (variant: no early return, step 5 goes on with an empty to_lookup)
Step5NoEarlyReturn ==
    /\ pc = "step5"
    /\ LET budget == remaining_budget IN
        /\ todo' = ToLookup(orphans, budget)
        /\ skipped' = Len(orphans) - Len(ToLookup(orphans, budget))
        /\ pc' = IF ToLookup(orphans, budget) = <<>> THEN "step6" ELSE "step5_lookup"
        /\ UNCHANGED <<notice, hist>>
    /\ UNCHANGED <<logs, ip_threats, client, patched_null, patched_abuse, reenriched,
                   patched_final, looked_up, failed, stale_ips, orphans>>
    /\ UNCHANGED <<seeder, api, timer, audit>>

\* Step 5, to the loop: with orphans and no budget _run_once logs and returns.
Step5 ==
    /\ pc = "step5"
    /\ LET budget == remaining_budget IN
       IF orphans # <<>> /\ budget = 0
       THEN /\ notice' = "no_budget"
            /\ pc' = "sleep"
            /\ timer' = BACKFILL_INTERVAL_SECONDS
            /\ hist' = [hist EXCEPT !.quiet = Ended(@)]
            /\ UNCHANGED <<todo, skipped>>
       ELSE /\ todo' = ToLookup(orphans, budget)
            /\ skipped' = Len(orphans) - Len(ToLookup(orphans, budget))
            /\ pc' = IF ToLookup(orphans, budget) = <<>> THEN "step6" ELSE "step5_lookup"
            /\ UNCHANGED <<notice, hist, timer>>
    /\ UNCHANGED <<logs, ip_threats, client, patched_null, patched_abuse, reenriched,
                   patched_final, looked_up, failed, stale_ips, orphans>>
    /\ UNCHANGED <<seeder, api, audit>>

\* if looked_up > 0 or reenriched > 0
NewData == looked_up > 0 \/ reenriched > 0

\* Step 6: patched_final = self._patch_from_cache() + self._patch_abuse_fields()
Step6 ==
    /\ pc = "step6"
    /\ IF NewData
       THEN LET p == patch_from_cache(logs, ip_threats) IN
            /\ logs' = p.rows
            /\ patched_final' = p.patched
            /\ pc' = "step6_abuse"
       ELSE /\ pc' = "step7"
            /\ UNCHANGED <<logs, patched_final>>
    /\ UNCHANGED <<ip_threats, client, patched_null, patched_abuse, reenriched,
                   looked_up, failed, skipped, lists, notice, hist>>
    /\ UNCHANGED <<seeder, api, timer, audit>>

Step6Abuse ==
    /\ pc = "step6_abuse"
    /\ LET p == patch_abuse_fields(logs, ip_threats) IN
        /\ logs' = p.rows
        /\ patched_final' = patched_final + p.patched
    /\ pc' = "step7"
    /\ hist' = [hist EXCEPT !.final = TRUE]
    /\ UNCHANGED <<ip_threats, client, patched_null, patched_abuse, reenriched,
                   looked_up, failed, skipped, lists, notice>>
    /\ UNCHANGED <<seeder, api, timer, audit>>

\* (variant: the test of the summary leaves the failed lookups out)
Step7NoFailed ==
    /\ pc = "step7"
    /\ notice' = IF \/ patched_null + patched_abuse + patched_final > 0
                    \/ looked_up > 0 \/ skipped > 0 \/ reenriched > 0
                 THEN "complete" ELSE "nothing_to_do"
    /\ pc' = "sleep"
    /\ timer' = BACKFILL_INTERVAL_SECONDS
    /\ hist' = [hist EXCEPT !.quiet = Ended(@)]
    /\ UNCHANGED <<logs, ip_threats, client, counts, lists>>
    /\ UNCHANGED <<seeder, api, audit>>

\* Step 7: the summary, or "nothing to do"; _run_once returns and the loop
\* goes on to time.sleep(BACKFILL_INTERVAL_SECONDS).
Step7 ==
    /\ pc = "step7"
    /\ notice' = IF \/ patched_null + patched_abuse + patched_final > 0
                    \/ looked_up > 0 \/ failed > 0 \/ skipped > 0 \/ reenriched > 0
                 THEN "complete" ELSE "nothing_to_do"
    /\ pc' = "sleep"
    /\ timer' = BACKFILL_INTERVAL_SECONDS
    /\ hist' = [hist EXCEPT !.quiet = Ended(@)]
    /\ UNCHANGED <<logs, ip_threats, client, counts, lists>>
    /\ UNCHANGED <<seeder, api, audit>>

\* A statement of the thread's own (steps 1, 2, 3, 4 and 6) fails in the
\* store: psycopg raises, the transaction is not committed, _run_loop catches.
StoreFails ==
    /\ pc \in {"step1", "step2", "step3", "step3_expire", "step4", "step6", "step6_abuse"}
    /\ Caught
    /\ UNCHANGED <<logs, ip_threats, client, counts, lists>>
    /\ UNCHANGED <<seeder, api, audit>>

Next ==
    \/ WakeUp \/ Step1 \/ Step2 \/ Step3Select \/ Step3Expire \/ Step4 \/ Step5
    \/ Step6 \/ Step6Abuse \/ Step7 \/ StoreFails
    \/ BackfillLookup \/ BackfillLookupOk \/ BackfillLookup429
    \/ BackfillLookupTimeout \/ BackfillLookupRaises
    \/ LiveLookup \/ LiveLookupOk \/ LiveLookup429 \/ LiveLookupTimeout

Spec == Init /\ [][Next]_vars

\* ------------------------------- the lookup client over quota windows
\* The thread has reached the orphan loop of a cycle that found three orphans
\* and an empty ip_threats, with a budget of 1 to MaxBudget.
InitWindows ==
    /\ logs = <<LogRow(Some("1.1.1.1"), Some("2.2.2.2"), "firewall", "block"),
                LogRow(Some("10.0.0.1"), Some("3.3.3.3"), "firewall", "block"),
                LogRow(Some("3.3.3.3"), Some("10.0.0.1"), "firewall", "block")>>
    /\ ip_threats = EmptyTable
    /\ cache = EmptyTable
    /\ remaining_budget \in 1..MaxBudget
    /\ inflight = [c \in Callers |-> NULL]
    /\ pc = "step5_lookup"
    /\ patched_null = 0 /\ patched_abuse = 0 /\ reenriched = 0 /\ patched_final = 0
    /\ looked_up = 0 /\ failed = 0
    /\ stale_ips = <<>>
    /\ orphans \in find_orphans(logs, ip_threats)
    /\ todo = ToLookup(orphans, remaining_budget)
    /\ skipped = Len(orphans) - Len(todo)
    /\ notice = "none"
    /\ seeder = Seeder(TRUE)
    /\ api = NoRequest
    /\ timer = 0
    /\ audit = NoAudit(0)
    /\ hist = [budget0 |-> remaining_budget, calls |-> 0,
               cycle_budget |-> remaining_budget, cycle_calls |-> 0,
               quiet |-> 0, final |-> FALSE, pending |-> {}]

\* The provider's quota window ends: the budget is back at the daily limit.
\* The history counts the calls of a window, so it starts again.
QuotaResetTo(limit) ==
    /\ remaining_budget < limit
    /\ remaining_budget' = limit
    /\ hist' = [hist EXCEPT !.budget0 = limit, !.calls = 0]
    /\ UNCHANGED <<logs, ip_threats, cache, inflight, pc, counts, lists, notice>>
    /\ UNCHANGED <<seeder, api, timer, audit>>

QuotaReset == QuotaResetTo(MaxBudget)

\* The lookups of the orphan loop and of the live path, and the reset.
NextWindows ==
    \/ BackfillLookup \/ BackfillLookupOk \/ BackfillLookup429
    \/ BackfillLookupTimeout \/ BackfillLookupRaises
    \/ LiveLookup \/ LiveLookupOk \/ LiveLookup429 \/ LiveLookupTimeout
    \/ QuotaReset

SpecWindows == InitWindows /\ [][NextWindows]_vars

\* ------------------------------------------ the daemon over quota windows
\* The backfill thread alone, cycle after cycle, the quota window being reset
\* from time to time.  It starts on a block between two public addresses
\* that has no score, and an ip_threats table that is empty or holds a
\* pre-verbose row of a third address.
InitRetry ==
    /\ logs = <<LogRow(Some("1.1.1.1"), Some("2.2.2.2"), "firewall", "block")>>
    /\ ip_threats \in {EmptyTable, [ip \in {"3.3.3.3"} |-> PreVerboseRow]}
    /\ cache = EmptyTable
    /\ remaining_budget \in 0..MaxRetryBudget
    /\ inflight = [c \in Callers |-> NULL]
    /\ pc = "initial_delay"
    /\ patched_null = 0 /\ patched_abuse = 0 /\ reenriched = 0 /\ patched_final = 0
    /\ looked_up = 0 /\ failed = 0 /\ skipped = 0
    /\ stale_ips = <<>> /\ orphans = <<>> /\ todo = <<>>
    /\ notice = "none"
    /\ seeder = Seeder(TRUE)
    /\ api = NoRequest
    /\ timer = INITIAL_DELAY_SECONDS
    /\ audit = NoAudit(0)
    /\ hist = [budget0 |-> remaining_budget, calls |-> 0,
               cycle_budget |-> 0, cycle_calls |-> 0, quiet |-> 0, final |-> FALSE,
               pending |-> {}]

ThreadStep ==
    \/ WakeUp \/ Step1 \/ Step2 \/ Step3Select \/ Step3Expire \/ Step4 \/ Step5
    \/ Step6 \/ Step6Abuse \/ Step7 \/ BackfillLookup

\* The quota window of this daemon is reset to a daily limit of MaxRetryBudget.
QuotaResetRetry == QuotaResetTo(MaxRetryBudget)

NextRetry ==
    \/ ThreadStep \/ StoreFails
    \/ BackfillLookupOk \/ BackfillLookup429 \/ BackfillLookupTimeout \/ BackfillLookupRaises
    \/ QuotaResetRetry

\* The thread is scheduled: a step it can take is taken (a sleep ends, a
\* statement returns).  The provider answers in the end: an IP for which
\* calls are made again and again gets an answer with data to one of them.
FairRetry ==
    /\ WF_vars(ThreadStep)
    /\ \A ip \in PublicIPs : SF_vars(BackfillLookupOk /\ inflight["backfill"] = Some(ip))

SpecRetry == InitRetry /\ [][NextRetry]_vars /\ FairRetry

\* ------------------------------------------------- the daemon loop in time
\* Time passes while the thread is in time.sleep: TickSeconds at a step, or
\* what is left of the sleep if that is less.
Sleeping == pc \in {"initial_delay", "sleep"}

Tick ==
    /\ Sleeping
    /\ timer > 0
    /\ timer' = IF timer > TickSeconds THEN timer - TickSeconds ELSE 0
    /\ UNCHANGED <<logs, ip_threats, client, pc, counts, lists, notice, seeder, api, audit, hist>>

\* time.sleep returns when its time has passed, and not before.
SleepReturns == timer = 0 /\ WakeUp

\* The steps the thread takes by itself, and the ways a lookup it waits for ends.
LoopThread ==
    \/ SleepReturns \/ Step1 \/ Step2 \/ Step3Select \/ Step3Expire \/ Step4 \/ Step5
    \/ Step6 \/ Step6Abuse \/ Step7 \/ BackfillLookup

LookupEnds ==
    \/ BackfillLookupOk \/ BackfillLookup429 \/ BackfillLookupTimeout \/ BackfillLookupRaises

NextLoop == Tick \/ LoopThread \/ LookupEnds \/ StoreFails

\* Time passes, the thread is scheduled, and a call that was started ends (the
\* HTTP client has a timeout).  A store statement may fail or not.
FairLoop == WF_vars(Tick) /\ WF_vars(LoopThread) /\ WF_vars(LookupEnds)

SpecLoop == InitRetry /\ [][NextLoop]_vars /\ FairLoop

\* ------------------------------------------ BlacklistFetcher.fetch_and_store
\* An item of the feed's data list: a JSON object, with or without its
\* ipAddress and abuseConfidenceScore members, or a value that is no object.
Item(ip, score) == [object |-> TRUE, ipAddress |-> ip, abuseConfidenceScore |-> score]
NoObject == [object |-> FALSE, ipAddress |-> NULL, abuseConfidenceScore |-> NULL]

\* The data lists the blacklist endpoint may answer with.
Payloads ==
    {<<>>,
     <<Item(Some("2.2.2.2"), Some(100))>>,
     <<Item(Some("2.2.2.2"), Some(90)), Item(Some("3.3.3.3"), NULL)>>,
     <<Item(Some("3.3.3.3"), Some(75)), Item(NULL, Some(80))>>,
     <<Item(NULL, Some(80))>>,
     <<Item(Some("2.2.2.2"), Some(100)), NoObject>>}

\* ip = item.get('ipAddress'); score = item.get('abuseConfidenceScore', 100)
\* if ip: entries.append((ip, score, ['blacklist']))
HasIp(item) == item.ipAddress # NULL
Entry(item) ==
    [ip |-> item.ipAddress[1],
     score |-> IF item.abuseConfidenceScore = NULL THEN 100 ELSE item.abuseConfidenceScore[1],
     categories |-> <<"blacklist">>]
\* (variant: a list with an item that has no ipAddress gives no entry)
EntriesAllOrNothing(data) ==
    IF \E i \in 1..Len(data) : ~HasIp(data[i]) THEN <<>>
    ELSE [i \in 1..Len(data) |-> Entry(data[i])]

Entries(data) ==
    LET kept == SelectSeq(data, HasIp) IN [i \in 1..Len(kept) |-> Entry(kept[i])]

\* (variant: the entries are stored without their category)
SeedDataNoCategory(e) ==
    Join([threat_score |-> Some(e.score), threat_categories |-> Some(<<>>)],
         Abuse(NULL, NULL))

\* db.bulk_upsert_threats: each entry is upserted, without detail; the count
\* is the number of rows inserted or updated.
SeedData(e) ==
    Join([threat_score |-> Some(e.score), threat_categories |-> Some(e.categories)],
         Abuse(NULL, NULL))

RECURSIVE BulkUpsertRows(_, _)
BulkUpsertRows(T, entries) ==
    IF entries = <<>> THEN T
    ELSE BulkUpsertRows(upsert(T, Head(entries).ip, SeedData(Head(entries))), Tail(entries))

bulk_upsert_threats(T, entries) ==
    [rows |-> BulkUpsertRows(T, entries), count |-> Len(entries)]

\* (variant: the request goes out whether there is an API key or not)
SeederStartNoKeyTest ==
    /\ seeder.pc = "idle"
    /\ seeder' = [seeder EXCEPT !.pc = "fetching", !.requested = TRUE, !.data = <<>>,
                                !.returned = NULL, !.last = "none"]
    /\ UNCHANGED <<logs, ip_threats, client, pc, timer, counts, lists, notice, hist, api, audit>>

\* fetch_and_store is called: without an API key it logs and returns 0, with
\* one the GET request goes out.
SeederStart ==
    /\ seeder.pc = "idle"
    /\ seeder' = IF ~seeder.enabled
                  THEN [seeder EXCEPT !.requested = FALSE, !.returned = Some(0),
                                      !.last = "disabled"]
                  ELSE [seeder EXCEPT !.pc = "fetching", !.requested = TRUE, !.data = <<>>,
                                      !.returned = NULL, !.last = "none"]
    /\ UNCHANGED <<logs, ip_threats, client, pc, timer, counts, lists, notice, hist, api, audit>>

\* (variant: the failure is not handled, the exception leaves fetch_and_store)
SeederRaises(kind) ==
    /\ seeder.pc = "fetching"
    /\ seeder' = [seeder EXCEPT !.pc = "idle", !.raised = TRUE, !.last = kind]
    /\ UNCHANGED <<logs, ip_threats, client, pc, timer, counts, lists, notice, hist, api, audit>>

\* A branch that logs and returns 0 (the 429 test, the empty-data test, the
\* three except clauses).
SeederReturns0(kind) ==
    /\ seeder.pc = "fetching"
    /\ seeder' = [seeder EXCEPT !.pc = "idle", !.returned = Some(0), !.last = kind]
    /\ UNCHANGED <<logs, ip_threats, client, pc, timer, counts, lists, notice, hist, api, audit>>

\* resp.status_code == 429
Seeder429 == SeederReturns0("429")

\* requests.get raises requests.Timeout
SeederTimeout == SeederReturns0("timeout")

\* requests.get raises another RequestException, or raise_for_status does
SeederRequestError == SeederReturns0("request_error")

\* resp.json() raises, or its value has no .get
SeederBadBody == SeederReturns0("bad_body")

\* db.bulk_upsert_threats raises: its transaction is not committed
SeederStoreFails == SeederReturns0("store_error")

\* The endpoint answers 200 with a data list: empty, 0 is returned; an item
\* that is no object raises in the loop that builds the entries, which the
\* last except clause catches; else the entries are upserted and their count
\* is returned.
SeederData ==
    /\ seeder.pc = "fetching"
    /\ \E data \in Payloads :
        IF data = <<>>
        THEN /\ seeder' = [seeder EXCEPT !.pc = "idle", !.data = data,
                                         !.returned = Some(0), !.last = "empty"]
             /\ UNCHANGED ip_threats
        ELSE IF \E i \in 1..Len(data) : ~data[i].object
        THEN /\ seeder' = [seeder EXCEPT !.pc = "idle", !.data = data,
                                         !.returned = Some(0), !.last = "bad_item"]
             /\ UNCHANGED ip_threats
        ELSE LET r == bulk_upsert_threats(ip_threats, Entries(data)) IN
             /\ ip_threats' = r.rows
             /\ seeder' = [seeder EXCEPT !.pc = "idle", !.data = data,
                                         !.returned = Some(r.count), !.last = "stored"]
    /\ UNCHANGED <<logs, client, pc, timer, counts, lists, notice, hist, api, audit>>

\* The writers of ip_threats over the same table: the seeder, the live
\* path's lookups, and the thread at step 3 of a cycle (its expiry and its
\* lookups), the logs table being empty and the budget 0 to MaxSeederBudget.
InitSeeder ==
    /\ logs = <<>>
    /\ ip_threats \in InitThreats
    /\ cache = EmptyTable
    /\ remaining_budget \in 0..MaxSeederBudget
    /\ inflight = [c \in Callers |-> NULL]
    /\ pc = "step3"
    /\ patched_null = 0 /\ patched_abuse = 0 /\ reenriched = 0 /\ patched_final = 0
    /\ looked_up = 0 /\ failed = 0 /\ skipped = 0
    /\ stale_ips = <<>> /\ orphans = <<>> /\ todo = <<>>
    /\ notice = "none"
    /\ seeder \in {Seeder(TRUE), Seeder(FALSE)}
    /\ api = NoRequest
    /\ timer = 0
    /\ audit = NoAudit(0)
    /\ hist = [budget0 |-> remaining_budget, calls |-> 0,
               cycle_budget |-> remaining_budget, cycle_calls |-> 0,
               quiet |-> 0, final |-> FALSE, pending |-> {}]

NextSeeder ==
    \/ Step3Select \/ Step3Expire
    \/ BackfillLookup \/ BackfillLookupOk \/ BackfillLookup429
    \/ BackfillLookupTimeout \/ BackfillLookupRaises
    \/ LiveLookup \/ LiveLookupOk \/ LiveLookup429 \/ LiveLookupTimeout
    \/ SeederStart \/ Seeder429 \/ SeederTimeout \/ SeederRequestError
    \/ SeederBadBody \/ SeederStoreFails \/ SeederData

SpecSeeder == InitSeeder /\ [][NextSeeder]_vars

\* ------------------------------------------ routes/threats.py: list_threats
\* The query parameters of GET /api/threats, as FastAPI hands them over (it
\* has checked the ranges of min_score, max_score and limit): ip and since
\* may be any string, sort and order too.
ThreatParams ==
    [ip : {NULL, Some("2.2.2.2"), Some("not-an-ip")},
     min_score : {0, 70},
     max_score : {NULL, Some(80)},
     since : {NULL, Some("2026-10-20T00:00:00"), Some("yesterday")},
     limit : {1, 100},
     sort : {"threat_score", "abuse_total_reports", "ip; DROP TABLE"},
     order : {"ASC", "desc"}]

\* ipaddress.ip_address(ip) and datetime.fromisoformat(since) return (they
\* raise ValueError otherwise).
IsIpAddress(str) == str \in IPs
IsIsoFormat(str) == str = "2026-10-20T00:00:00"

\* order.lower()
Lower(str) == IF str = "ASC" THEN "asc" ELSE str

\* sort_col = allowed_sorts.get(sort, 'threat_score')
\* sort_dir = 'ASC' if order.lower() == 'asc' else 'DESC'
SortCol(sort) ==
    IF sort \in {"threat_score", "looked_up_at", "abuse_total_reports"} THEN sort
    ELSE "threat_score"
SortDir(order) == IF Lower(order) = "asc" THEN "ASC" ELSE "DESC"

\* WHERE threat_score >= min_score [AND threat_score <= max_score]
\*   [AND ip = ip::inet] [AND looked_up_at >= since::timestamptz]
\* (the since of the requests is a time within the TTL before now)
ThreatWhere(T, x, q) ==
    /\ T[x].threat_score # NULL
    /\ T[x].threat_score[1] >= q.min_score
    /\ q.max_score # NULL => T[x].threat_score[1] <= q.max_score[1]
    /\ q.ip # NULL => x = q.ip[1]
    /\ q.since # NULL => T[x].looked_up_at = "fresh"

\* A row's rank under ORDER BY col: NULL sorts as the largest value.
SortKey(row, col) ==
    CASE col = "threat_score" -> row.threat_score[1]
      [] col = "looked_up_at" -> IF row.looked_up_at = "fresh" THEN 1 ELSE 0
      [] OTHER -> IF row.abuse_total_reports = NULL THEN 1000 ELSE row.abuse_total_reports[1]

\* ORDER BY col dir LIMIT n over the rows C: every list the SELECT may return.
RECURSIVE ThreatSelect(_, _, _, _, _)
ThreatSelect(T, C, col, dir, n) ==
    IF n = 0 \/ C = {} THEN {<<>>}
    ELSE LET first == {x \in C : \A o \in C :
                          IF dir = "ASC" THEN SortKey(T[x], col) <= SortKey(T[o], col)
                          ELSE SortKey(T[o], col) <= SortKey(T[x], col)}
         IN  UNION {{<<x>> \o r : r \in ThreatSelect(T, C \ {x}, col, dir, n - 1)} : x \in first}

\* datetime.isoformat()
IsoFormat(t) == "iso:" \o t

\* The item made of a row: host(ip) as ip, the columns, looked_up_at as text.
ThreatItem(T, x) ==
    [f \in DOMAIN T[x] \cup {"ip"} |->
        CASE f = "ip" -> x
          [] f = "looked_up_at" -> IsoFormat(T[x].looked_up_at)
          [] OTHER -> T[x][f]]

\* What a request ends with: the JSON body of a 200, or an HTTPException.
Response(status, total, threats) ==
    [pc |-> "idle", params |-> NULL, status |-> Some(status), total |-> total,
     threats |-> threats]

\* (variant: the handler looks the requested IP up when the store has no row)
ListThreatsLooksUp ==
    /\ api.pc = "idle"
    /\ \E q \in ThreatParams :
        /\ q.ip # NULL /\ IsIpAddress(q.ip[1]) /\ q.ip[1] \notin DOMAIN ip_threats
        /\ HasBudget(remaining_budget)
        /\ remaining_budget' = remaining_budget - 1
        /\ \E r \in Responses : ip_threats' = upsert(ip_threats, q.ip[1], r)
        /\ api' = [api EXCEPT !.pc = "count", !.params = Some(q), !.status = NULL,
                              !.total = NULL, !.threats = <<>>]
    /\ UNCHANGED <<logs, cache, inflight, pc, timer, counts, lists, notice, seeder, audit, hist>>

\* list_threats is called: an ip or a since that does not parse ends the
\* request with a 400 before a connection is taken; else the WHERE clause is
\* built and the handler goes to its first SELECT.
ListThreats ==
    /\ api.pc = "idle"
    /\ \E q \in ThreatParams :
        api' = IF q.ip # NULL /\ ~IsIpAddress(q.ip[1]) THEN Response(400, NULL, <<>>)
               ELSE IF q.since # NULL /\ ~IsIsoFormat(q.since[1]) THEN Response(400, NULL, <<>>)
               ELSE [api EXCEPT !.pc = "count", !.params = Some(q), !.status = NULL,
                                !.total = NULL, !.threats = <<>>]
    /\ UNCHANGED <<logs, ip_threats, client, pc, timer, counts, lists, notice, seeder, audit, hist>>

\* SELECT COUNT(*) FROM ip_threats WHERE ...
ListThreatsCount ==
    /\ api.pc = "count"
    /\ LET q == api.params[1] IN
       api' = [api EXCEPT !.pc = "select",
                          !.total = Some(Cardinality({x \in DOMAIN ip_threats :
                                                        ThreatWhere(ip_threats, x, q)}))]
    /\ UNCHANGED <<logs, ip_threats, client, pc, timer, counts, lists, notice, seeder, audit, hist>>

\* SELECT ... ORDER BY sort_col sort_dir LIMIT limit; the items are built,
\* conn.commit(), and the body is returned.
ListThreatsSelect ==
    /\ api.pc = "select"
    /\ LET q == api.params[1] IN
       \E rows \in ThreatSelect(ip_threats, {x \in DOMAIN ip_threats : ThreatWhere(ip_threats, x, q)},
                                SortCol(q.sort), SortDir(q.order), q.limit) :
           api' = Response(200, api.total,
                           [i \in 1..Len(rows) |-> ThreatItem(ip_threats, rows[i])])
    /\ UNCHANGED <<logs, ip_threats, client, pc, timer, counts, lists, notice, seeder, audit, hist>>

\* A statement fails in the store: conn.rollback(), HTTPException 500.
ListThreatsStoreFails ==
    /\ api.pc \in {"count", "select"}
    /\ api' = Response(500, NULL, <<>>)
    /\ UNCHANGED <<logs, ip_threats, client, pc, timer, counts, lists, notice, seeder, audit, hist>>

\* The API's requests beside the live path's lookups, the backfill thread
\* being asleep.
InitReader ==
    /\ logs \in InitLogs
    /\ ip_threats \in InitThreats
    /\ cache = EmptyTable
    /\ remaining_budget \in 0..MaxSeederBudget
    /\ inflight = [c \in Callers |-> NULL]
    /\ pc = "sleep"
    /\ patched_null = 0 /\ patched_abuse = 0 /\ reenriched = 0 /\ patched_final = 0
    /\ looked_up = 0 /\ failed = 0 /\ skipped = 0
    /\ stale_ips = <<>> /\ orphans = <<>> /\ todo = <<>>
    /\ notice = "none"
    /\ seeder = Seeder(TRUE)
    /\ api = NoRequest
    /\ timer = BACKFILL_INTERVAL_SECONDS
    /\ audit = NoAudit(0)
    /\ hist = [budget0 |-> remaining_budget, calls |-> 0,
               cycle_budget |-> 0, cycle_calls |-> 0, quiet |-> 0, final |-> FALSE,
               pending |-> {}]

NextReader ==
    \/ ListThreats \/ ListThreatsCount \/ ListThreatsSelect \/ ListThreatsStoreFails
    \/ LiveLookup \/ LiveLookupOk \/ LiveLookup429 \/ LiveLookupTimeout

SpecReader == InitReader /\ [][NextReader]_vars

\* ------------------------------------------- the patches over any tables
\* A logs row as ingestion or an earlier enrichment may have left it: with a
\* score or without, with categories or without, with its usage type and its
\* other abuse fields there or not.
PatchRows(src, dst) ==
    {Join([src_ip |-> src, dst_ip |-> dst, log_type |-> k[1], rule_action |-> k[2],
           threat_score |-> sc, threat_categories |-> cats], Abuse(u, v)) :
        k \in {<<"firewall", "block">>, <<"firewall", "allow">>},
        sc \in {NULL, Some(50)},
        cats \in {NULL, Some(<<"web">>)},
        u \in {NULL, Some(7)},
        v \in {NULL, Some(7)}}

\* The ip_threats rows of the patches: pre-verbose, a blacklist seed, a row
\* the provider gave no usage type for, a verbose row.
PatchThreatRows ==
    {PreVerboseRow, BlacklistRow} \cup {UpsertRow(EmptyTable, "0.0.0.0", r) : r \in Responses}

PatchThreats ==
    UNION {[D -> PatchThreatRows] : D \in SUBSET {"1.1.1.1", "2.2.2.2"}}

\* The thread is at step 1 of a cycle, over one row between two public
\* addresses and any such ip_threats table; nothing else runs.
InitPatch ==
    /\ \E l \in PatchRows(Some("1.1.1.1"), Some("2.2.2.2")) : logs = <<l>>
    /\ ip_threats \in PatchThreats
    /\ cache = EmptyTable
    /\ remaining_budget = 0
    /\ inflight = [c \in Callers |-> NULL]
    /\ pc = "step1"
    /\ patched_null = 0 /\ patched_abuse = 0 /\ reenriched = 0 /\ patched_final = 0
    /\ looked_up = 0 /\ failed = 0 /\ skipped = 0
    /\ stale_ips = <<>> /\ orphans = <<>> /\ todo = <<>>
    /\ notice = "none"
    /\ seeder = Seeder(TRUE)
    /\ api = NoRequest
    /\ timer = 0
    /\ audit = NoAudit(0)
    /\ hist = [budget0 |-> 0, calls |-> 0, cycle_budget |-> 0, cycle_calls |-> 0,
               quiet |-> 0, final |-> FALSE, pending |-> {}]

NextPatch == Step1 \/ Step2

SpecPatch == InitPatch /\ [][NextPatch]_vars

\* ------------------------------------------------ routes/logs.py: get_log
\* The WAN addresses of the configuration, as get_wan_ips_from_config may
\* return them: none, or the destination of the row.
WanConfigs == {{}, {"2.2.2.2"}}

\* The ids a request may name: the row's and one that is no row's.
LogIds == 1..2

\* LEFT JOIN ip_threats t ON t.ip = l.<col> AND NOT (l.<col> = ANY(wan_ips)):
\* the joined row, or NULL.
DetailJoin(l, T, col, wan) ==
    IF l[col] # NULL /\ host(l[col]) \in DOMAIN T /\ host(l[col]) \notin wan
    THEN Some(T[host(l[col])]) ELSE NULL

\* t.<f> of a joined row: NULL when the join found none.
JoinedField(t, f) == IF t = NULL THEN NULL ELSE t[1][f]

\* (variant: the source row's record comes first whatever the direction)
DetailCaseSrcFirst(l, t1, t2, f) ==
    IF t1 # NULL THEN JoinedField(t1, f) ELSE JoinedField(t2, f)

\* CASE WHEN l.direction IN ('inbound', 'in') THEN t1.<f>
\*      WHEN l.direction IN ('outbound', 'out') THEN t2.<f>
\*      WHEN t1.ip IS NOT NULL THEN t1.<f> ELSE t2.<f> END
DetailCase(l, t1, t2, f) ==
    IF l.direction \in {"inbound", "in"} THEN JoinedField(t1, f)
    ELSE IF l.direction \in {"outbound", "out"} THEN JoinedField(t2, f)
    ELSE IF t1 # NULL THEN JoinedField(t1, f)
    ELSE JoinedField(t2, f)

\* CASE WHEN array_length(c, 1) > 0 THEN c END
NonEmptyArray(c) == IF array_length(c) # NULL /\ array_length(c)[1] > 0 THEN c ELSE NULL

\* The row _LOG_DETAIL_SQL selects for a log: l.* with the six abuse columns
\* and threat_categories filled from the joined ip_threats rows.
LogDetailRow(l, T, wan) ==
    LET t1 == DetailJoin(l, T, "src_ip", wan)
        t2 == DetailJoin(l, T, "dst_ip", wan)
        cats(t) == IF t = NULL THEN NULL ELSE Some([t[1] EXCEPT !.threat_categories = NonEmptyArray(@)])
    IN  [f \in DOMAIN l |->
            CASE f \in AbuseFields -> COALESCE(l[f], DetailCase(l, t1, t2, f))
              [] f = "threat_categories" ->
                    COALESCE(NonEmptyArray(l[f]), DetailCase(l, cats(t1), cats(t2), f))
              [] OTHER -> l[f]]

\* _serialize_log: abuse_last_reported, when there, becomes its isoformat()
\* string; src_ip and dst_ip become str.
IsoOf(v) == <<"iso", v>>
serialize_log(row) ==
    [f \in DOMAIN row |->
        IF f = "abuse_last_reported" /\ row[f] # NULL THEN Some(IsoOf(row[f][1])) ELSE row[f]]

\* What get_log ends with: the body of a 200, or an HTTPException.
LogResponse(status, q, body) ==
    [pc |-> "idle", params |-> q, status |-> Some(status), total |-> NULL, threats |-> body]

\* GET /api/logs/{log_id}: the SELECT of _LOG_DETAIL_SQL WHERE l.id = log_id
\* with the WAN addresses of the configuration; no row is a 404.
GetLog ==
    /\ api.pc = "idle"
    /\ \E log_id \in LogIds, wan \in WanConfigs :
        LET q == Some([log_id |-> log_id, wan_ips |-> wan]) IN
        api' = IF log_id \notin DOMAIN logs THEN LogResponse(404, q, <<>>)
               ELSE LogResponse(200, q,
                        <<serialize_log(LogDetailRow(logs[log_id], ip_threats, wan))>>)
    /\ UNCHANGED <<logs, ip_threats, client, pc, timer, counts, lists, notice, seeder, audit, hist>>

\* The statement fails in the store: conn.rollback(), HTTPException 500.
GetLogStoreFails ==
    /\ api.pc = "idle"
    /\ api' = LogResponse(500, NULL, <<>>)
    /\ UNCHANGED <<logs, ip_threats, client, pc, timer, counts, lists, notice, seeder, audit, hist>>

\* A logs row with its direction.
DetailRows ==
    {Join(l, [direction |-> d]) :
        l \in PatchRows(Some("1.1.1.1"), Some("2.2.2.2")),
        d \in {"inbound", "outbound", "inter_vlan"}}

\* The thread is at step 2 of a cycle, over one row and any ip_threats table
\* of the patches; the API answers requests for the row's detail.
InitDetail ==
    /\ \E l \in DetailRows : logs = <<l>>
    /\ ip_threats \in PatchThreats
    /\ cache = EmptyTable
    /\ remaining_budget = 0
    /\ inflight = [c \in Callers |-> NULL]
    /\ pc = "step2"
    /\ patched_null = 0 /\ patched_abuse = 0 /\ reenriched = 0 /\ patched_final = 0
    /\ looked_up = 0 /\ failed = 0 /\ skipped = 0
    /\ stale_ips = <<>> /\ orphans = <<>> /\ todo = <<>>
    /\ notice = "none"
    /\ seeder = Seeder(TRUE)
    /\ api = NoRequest
    /\ timer = 0
    /\ audit = NoAudit(0)
    /\ hist = [budget0 |-> 0, calls |-> 0, cycle_budget |-> 0, cycle_calls |-> 0,
               quiet |-> 0, final |-> FALSE, pending |-> {}]

NextDetail == GetLog \/ GetLogStoreFails \/ Step2

SpecDetail == InitDetail /\ [][NextDetail]_vars

\* --------------------------------------------- routes/mcp.py: _write_audit
\* _write_audit as callers on two threads run it.  The counter is a module
\* global: `+= 1` loads it and stores the sum in two steps, the test loads it
\* again, and `= 0` stores; another thread may run between any two of them.
AllIdle == \A x \in Writers : audit.w[x].pc = "idle"

AuditAt(x, pc1, tmp) == [audit.w EXCEPT ![x] = [pc |-> pc1, tmp |-> tmp]]

\* The call begins.  With auditing off it returns at once; otherwise it runs
\* the INSERT, which may raise: the call rolls back and returns.
AuditInsert(x) ==
    /\ audit.w[x].pc = "idle"
    /\ audit.calls < MaxAuditCalls
    /\ \E enabled, ok \in BOOLEAN :
        IF enabled /\ ok
        THEN audit' = [audit EXCEPT !.w = AuditAt(x, "load", 0),
                                    !.since = @ + 1,
                                    !.calls = @ + 1,
                                    !.overlap = @ \/ ~AllIdle]
        ELSE audit' = [audit EXCEPT !.calls = @ + 1]
    /\ UNCHANGED <<logs, ip_threats, client, pc, timer, counts, lists, notice, seeder, api, hist>>

\* _audit_cleanup_counter += 1, the load
AuditLoad(x) ==
    /\ audit.w[x].pc = "load"
    /\ audit' = [audit EXCEPT !.w = AuditAt(x, "store", audit.counter)]
    /\ UNCHANGED <<logs, ip_threats, client, pc, timer, counts, lists, notice, seeder, api, hist>>

\* _audit_cleanup_counter += 1, the store
AuditStore(x) ==
    /\ audit.w[x].pc = "store"
    /\ audit' = [audit EXCEPT !.counter = audit.w[x].tmp + 1,
                              !.w = AuditAt(x, "test", 0)]
    /\ UNCHANGED <<logs, ip_threats, client, pc, timer, counts, lists, notice, seeder, api, hist>>

AuditTestAlways(x) ==
    /\ audit.w[x].pc = "test"
    /\ audit' = [audit EXCEPT !.w = AuditAt(x, "reset", 0)]
    /\ UNCHANGED <<logs, ip_threats, client, pc, timer, counts, lists, notice, seeder, api, hist>>

\* if _audit_cleanup_counter >= 100; if not, the call commits and returns.
AuditTest(x) ==
    /\ audit.w[x].pc = "test"
    /\ audit' = [audit EXCEPT !.w = AuditAt(x,
                    IF audit.counter >= AUDIT_CLEANUP_EVERY THEN "reset" ELSE "idle", 0)]
    /\ UNCHANGED <<logs, ip_threats, client, pc, timer, counts, lists, notice, seeder, api, hist>>

\* _audit_cleanup_counter = 0, then the DELETE of the rows past retention and
\* the commit; if the DELETE raises the call rolls back, the counter stays 0.
AuditReset(x) ==
    /\ audit.w[x].pc = "reset"
    /\ \E ok \in BOOLEAN :
        IF ok
        THEN audit' = [audit EXCEPT !.counter = 0,
                                    !.w = AuditAt(x, "idle", 0),
                                    !.cleanups = @ + 1,
                                    !.gap = Some(audit.since),
                                    !.since = 0]
        ELSE audit' = [audit EXCEPT !.counter = 0,
                                    !.w = AuditAt(x, "idle", 0),
                                    !.delfail = TRUE]
    /\ UNCHANGED <<logs, ip_threats, client, pc, timer, counts, lists, notice, seeder, api, hist>>

\* What a call that has begun does next.
AuditStep(x) == AuditLoad(x) \/ AuditStore(x) \/ AuditTest(x) \/ AuditReset(x)

AuditStarts == {0} \cup ((AUDIT_CLEANUP_EVERY - AuditHead)..(AUDIT_CLEANUP_EVERY - 1))

InitAudit ==
    /\ logs = <<>>
    /\ ip_threats = EmptyTable
    /\ cache = EmptyTable
    /\ remaining_budget = 0
    /\ inflight = [c \in Callers |-> NULL]
    /\ pc = "sleep"
    /\ patched_null = 0 /\ patched_abuse = 0 /\ reenriched = 0 /\ patched_final = 0
    /\ looked_up = 0 /\ failed = 0 /\ skipped = 0
    /\ stale_ips = <<>> /\ orphans = <<>> /\ todo = <<>>
    /\ notice = "none"
    /\ seeder = Seeder(FALSE)
    /\ api = NoRequest
    /\ timer = BACKFILL_INTERVAL_SECONDS
    /\ \E k \in AuditStarts : audit = NoAudit(k)
    /\ hist = [budget0 |-> 0, calls |-> 0, cycle_budget |-> 0, cycle_calls |-> 0,
               quiet |-> 0, final |-> FALSE, pending |-> {}]

NextAudit ==
    \E x \in Writers : AuditInsert(x) \/ AuditLoad(x) \/ AuditStore(x) \/ AuditTest(x) \/ AuditReset(x)

\* A thread that is in _write_audit goes on running it.
FairAudit == \A x \in Writers : WF_vars(AuditStep(x))

SpecAudit == InitAudit /\ [][NextAudit]_vars /\ FairAudit

\* ------------------------------------- step 3 over a large ip_threats table
\* A table of n rows without abuse detail (blacklist seeds and pre-verbose
\* rows with empty or NULL categories, the scores rising with a tie at the
\* bottom) and three rows the SELECT must leave out: one of score 0, one with
\* another category, one with its usage type known.
StaleIP(i) == "5.0.0." \o ToString(i)

BatchRow(i) ==
    Join([threat_score |-> Some(IF i <= 2 THEN 1 ELSE i - 1),
          threat_categories |-> CASE i % 3 = 0 -> NULL
                                  [] i % 3 = 1 -> Some(<<>>)
                                  [] OTHER -> Some(<<"blacklist">>),
          looked_up_at |-> "fresh"], Abuse(NULL, NULL))

BatchExtras ==
    [ip \in {"6.0.0.1", "6.0.0.2", "6.0.0.3"} |->
        CASE ip = "6.0.0.1" ->
                Join([threat_score |-> Some(0), threat_categories |-> Some(<<>>),
                      looked_up_at |-> "fresh"], Abuse(NULL, NULL))
          [] ip = "6.0.0.2" ->
                Join([threat_score |-> Some(100), threat_categories |-> Some(<<"ssh">>),
                      looked_up_at |-> "fresh"], Abuse(NULL, Some(1)))
          [] OTHER ->
                Join([threat_score |-> Some(100), threat_categories |-> Some(<<>>),
                      looked_up_at |-> "fresh"], Abuse(Some(2), Some(2)))]

BatchTable(n) ==
    [ip \in {StaleIP(i) : i \in 1..n} \cup DOMAIN BatchExtras |->
        IF ip \in DOMAIN BatchExtras THEN BatchExtras[ip]
        ELSE BatchRow(CHOOSE i \in 1..n : StaleIP(i) = ip)]

\* The thread is at step 3 of a cycle, the table has 0 to MaxRows such rows,
\* the mirror holds every other one of them, the budget is 0 to MaxRows.
InitBatch ==
    /\ logs = <<>>
    /\ \E n \in 0..MaxRows :
        /\ ip_threats = BatchTable(n)
        /\ cache = [ip \in {StaleIP(i) : i \in {i \in 1..n : i % 2 = 1}} |->
                        Result(BatchTable(n)[ip])]
    /\ remaining_budget \in 0..MaxRows
    /\ inflight = [c \in Callers |-> NULL]
    /\ pc = "step3"
    /\ patched_null = 0 /\ patched_abuse = 0 /\ reenriched = 0 /\ patched_final = 0
    /\ looked_up = 0 /\ failed = 0 /\ skipped = 0
    /\ stale_ips = <<>> /\ orphans = <<>> /\ todo = <<>>
    /\ notice = "none"
    /\ seeder = Seeder(TRUE)
    /\ api = NoRequest
    /\ timer = 0
    /\ audit = NoAudit(0)
    /\ hist = [budget0 |-> remaining_budget, calls |-> 0,
               cycle_budget |-> remaining_budget, cycle_calls |-> 0,
               quiet |-> 0, final |-> FALSE, pending |-> {}]

\* Step 3 alone: the SELECT, the expiry and the lookup loop, whose calls
\* time out or are answered 429.
NextBatch ==
    \/ Step3Select \/ Step3Expire
    \/ BackfillLookup \/ BackfillLookupTimeout \/ BackfillLookup429

SpecBatch == InitBatch /\ [][NextBatch]_vars

\* ================================================================ properties
\* 1 while the caller's external call is in progress.
InFlight(c) == IF inflight[c] # NULL THEN 1 ELSE 0

\* C1: in one cycle the backfill thread makes no more external calls (stale
\* re-lookups of step 3 plus orphan lookups of step 5) than the budget was
\* when the cycle started, and step 5 plans its lookups on what step 3 left:
\* the orphans still to look up plus the calls already made stay within it.
C1_BudgetPerCycle ==
    /\ hist.cycle_calls <= hist.cycle_budget
    /\ pc = "step5_lookup" =>
          Len(todo) - InFlight("backfill") + hist.cycle_calls <= hist.cycle_budget

\* A cycle that spent its whole budget, on a stale row and then on an orphan.
C1_Witness ==
    /\ pc = "step6"
    /\ stale_ips # <<>>
    /\ looked_up + failed > 0
    /\ hist.cycle_budget = MaxBudget
    /\ hist.cycle_calls = hist.cycle_budget

\* C2: whatever the interleaving of the live path and the backfill thread,
\* the external calls of the quota window never exceed its budget at the
\* start, and remaining_budget never goes below zero.
C2_SharedBudget ==
    /\ remaining_budget >= 0
    /\ hist.calls + remaining_budget <= hist.budget0
    /\ hist.calls <= hist.budget0

\* Both callers have a call in flight and the budget is used up.
C2_Witness ==
    /\ inflight["backfill"] # NULL
    /\ inflight["live"] # NULL
    /\ remaining_budget = 0
    /\ hist.calls = hist.budget0

\* C3: a cycle that ran to its end right after another one that did, with
\* no data arriving since the first started, patched no row.
C3_SecondRunPatchesNothing ==
    (pc = "sleep" /\ hist.quiet = 2) =>
        (patched_null = 0 /\ patched_abuse = 0 /\ patched_final = 0)

\* Two such cycles in a row, over rows the first one had got a score for.
C3_Witness ==
    /\ pc = "sleep"
    /\ hist.quiet = 2
    /\ \E i \in DOMAIN logs : logs[i].threat_score # NULL

\* C4: a row's threat_score, once not NULL, is never changed again.
C4_ScoreWrittenOnce ==
    [][\A i \in DOMAIN logs :
          logs[i].threat_score # NULL => logs'[i].threat_score = logs[i].threat_score]_vars

\* A row kept its score through a whole cycle in which ip_threats held
\* another score for its source.
C4_Witness ==
    /\ pc = "sleep"
    /\ hist.quiet >= 1
    /\ logs[1].threat_score = Some(60)
    /\ "1.1.1.1" \in DOMAIN ip_threats
    /\ ip_threats["1.1.1.1"].threat_score = Some(80)

\* A step that ran _patch_from_cache; a row's column has an ip_threats row;
\* a row carries the score and categories of an ip_threats row.
ScorePatchRan == (pc = "step1" /\ pc' = "step2") \/ (pc = "step6" /\ pc' = "step6_abuse")
Has(l, col) == l[col] # NULL /\ host(l[col]) \in DOMAIN ip_threats
FromRow(l2, ip) ==
    /\ l2.threat_score = ip_threats[ip].threat_score
    /\ l2.threat_categories = ip_threats[ip].threat_categories

\* C5 as stated: patch-from-cache gives every NULL-score row whose src_ip and
\* dst_ip both have an ip_threats row the score and categories of the src_ip
\* row.
C5_Stated ==
    [][ScorePatchRan =>
        \A i \in DOMAIN logs :
            (logs[i].threat_score = NULL /\ Has(logs[i], "src_ip") /\ Has(logs[i], "dst_ip"))
                => FromRow(logs'[i], host(logs[i].src_ip))]_vars

\* C5 as amended: that holds of the NULL-score rows with log_type 'firewall'
\* and rule_action 'block'; a row the patch changes gets the dst_ip row's
\* values only if its src_ip has no ip_threats row; and the NULL-score rows of
\* another type or action are left as they are.
C5_SrcBeforeDst ==
    [][ScorePatchRan =>
        \A i \in DOMAIN logs : logs[i].threat_score = NULL =>
            LET block == logs[i].log_type = "firewall" /\ logs[i].rule_action = "block" IN
            /\ (block /\ Has(logs[i], "src_ip") /\ Has(logs[i], "dst_ip"))
                  => FromRow(logs'[i], host(logs[i].src_ip))
            /\ (logs'[i] # logs[i] /\ Has(logs[i], "src_ip"))
                  => FromRow(logs'[i], host(logs[i].src_ip))
            /\ (logs'[i] # logs[i] /\ ~Has(logs[i], "src_ip"))
                  => Has(logs[i], "dst_ip") /\ FromRow(logs'[i], host(logs[i].dst_ip))
            /\ ~block => logs'[i] = logs[i]]_vars

\* Step 1 ran over the tables as found, both addresses of row 1 having an
\* ip_threats row with different scores: row 1 has its source's.
C5_Witness ==
    /\ pc = "step2"
    /\ hist.calls = 0
    /\ patched_null > 0
    /\ {"1.1.1.1", "2.2.2.2"} \subseteq DOMAIN ip_threats
    /\ ip_threats["2.2.2.2"].threat_score = Some(100)
    /\ logs[1].threat_score = Some(60)

\* A step that ran _patch_abuse_fields.
AbusePatchRan == (pc = "step2" /\ pc' = "step3") \/ (pc = "step6_abuse" /\ pc' = "step7")

\* C6 as stated: patch-abuse-fields leaves every abuse column of a row that
\* is not NULL as it is.
C6_Stated ==
    [][AbusePatchRan =>
        \A i \in DOMAIN logs : \A f \in AbuseFields :
            logs[i][f] # NULL => logs'[i][f] = logs[i][f]]_vars

\* C7 as stated: a cycle that ran to its end and in which step 3 or step 5
\* got new data (reenriched > 0 or looked_up > 0) ran the final patch.
C7_Stated ==
    (pc = "sleep" /\ notice \in {"no_budget", "complete", "nothing_to_do"} /\ NewData)
        => hist.final

\* C8: an error raised in a cycle leaves the thread asleep, from where the
\* next cycle can start; the thread never ends.
C8_CycleErrorContained ==
    /\ pc # "dead"
    /\ notice = "cycle_failed" => (pc = "sleep" /\ ENABLED WakeUp)

\* A cycle failed in the middle of a lookup loop.
C8_Witness ==
    /\ pc = "sleep"
    /\ notice = "cycle_failed"
    /\ todo # <<>>

\* C9 as stated: outside the lookup loops no IP of a batch is left without
\* its lookup having been attempted, whatever made a lookup fail.
C9_Stated == pc \notin LoopPcs => todo = <<>>

\* C9 as amended: a lookup that returns absent (no result, 429, timeout)
\* leaves the thread in the loop with the next lookup to come; only an error
\* raised by lookup, which ends the cycle, leaves IPs of the batch unattempted.
C9_AbsentDoesNotAbort ==
    /\ pc \in LoopPcs => (todo # <<>> /\ (inflight["backfill"] # NULL \/ ENABLED BackfillLookup))
    /\ (pc \notin LoopPcs /\ todo # <<>>) => (pc = "sleep" /\ notice = "cycle_failed")

\* An orphan lookup failed and the loop is at the next orphan.
C9_Witness ==
    /\ pc = "step5_lookup"
    /\ failed > 0
    /\ todo # <<>>
    /\ inflight["backfill"] = NULL

\* A step that ran _find_orphans; ip is src_ip or dst_ip of a NULL-score row
\* among rows; the rows that are firewall blocks.
Range(q) == {q[i] : i \in 1..Len(q)}
OrphansFound == pc = "step4" /\ pc' = "step5"
OnNullScoreRow(ip, rows) ==
    \E i \in rows : logs[i].threat_score = NULL
                    /\ (logs[i].src_ip = Some(ip) \/ logs[i].dst_ip = Some(ip))
BlockRows == {i \in DOMAIN logs : logs[i].log_type = "firewall" /\ logs[i].rule_action = "block"}

\* C10 as stated: find-orphans returns the public IPs that are src_ip or
\* dst_ip of some NULL-score row, of whatever type and action, and have no
\* ip_threats row.
C10_Stated ==
    [][OrphansFound =>
        \A ip \in IPs :
            ip \in Range(orphans') <=>
                (/\ is_public_ip(ip)
                 /\ ip \notin DOMAIN ip_threats
                 /\ OnNullScoreRow(ip, DOMAIN logs))]_vars

\* C10 as amended: the same of the NULL-score rows with log_type 'firewall'
\* and rule_action 'block' only; each such IP is returned once.
C10_OrphansOfBlockRows ==
    [][OrphansFound =>
        /\ \A ip \in IPs :
              ip \in Range(orphans') <=>
                  (/\ is_public_ip(ip)
                   /\ ip \notin DOMAIN ip_threats
                   /\ OnNullScoreRow(ip, BlockRows))
        /\ Cardinality(Range(orphans')) = Len(orphans')]_vars

\* Step 4 returned the public destination of a NULL-score block whose source
\* is private, while another address has an ip_threats row.
C10_Witness ==
    /\ pc = "step5"
    /\ logs[2].threat_score = NULL
    /\ Range(orphans) = {"3.3.3.3"}
    /\ DOMAIN ip_threats # {}

\* C11: when step 5 starts with at least one orphan and remaining_budget 0,
\* the cycle logs the "orphans pending but no API budget" notice and ends
\* there: no lookup is called for an orphan (no call starts, nothing is counted
\* as looked up or failed), the final patch does not run (the logs stay as
\* they are) and the summary is not logged.
C11_NoBudgetEndsCycle ==
    /\ [](notice = "no_budget" =>
            /\ pc = "sleep"
            /\ orphans # <<>>
            /\ looked_up = 0 /\ failed = 0 /\ skipped = 0
            /\ patched_final = 0 /\ ~hist.final)
    /\ [][(pc = "step5" /\ pc' # "step5" /\ orphans # <<>> /\ remaining_budget = 0) =>
            /\ notice' = "no_budget"
            /\ pc' = "sleep"
            /\ todo' = <<>>
            /\ inflight' = inflight
            /\ hist'.calls = hist.calls
            /\ logs' = logs /\ ip_threats' = ip_threats]_vars

\* A cycle ended on the notice with an orphan pending, having patched rows in
\* step 1.
C11_Witness ==
    /\ pc = "sleep"
    /\ notice = "no_budget"
    /\ orphans # <<>>
    /\ patched_null > 0

\* The step of step 3 that ran the SELECT; the one that expired the batch.
StaleSelected == pc = "step3" /\ pc' \in {"step3_expire", "step4"}
StaleExpired == pc = "step3_expire" /\ pc' = "step3_lookup"

\* C12: the batch step 3 selects is never longer than min(STALE_REENRICH_BATCH,
\* remaining_budget as read when step 3 starts); the rows step 3 backdates are
\* rows of that batch, and its lookup loop goes through that batch once, so
\* the external calls of the loop and the IPs still to look up never exceed it.
C12_StaleBatchCap ==
    /\ [][StaleSelected =>
            /\ Len(stale_ips') <= STALE_REENRICH_BATCH
            /\ Len(stale_ips') <= remaining_budget]_vars
    /\ [][StaleExpired =>
            /\ {ip \in DOMAIN ip_threats : ip_threats'[ip] # ip_threats[ip]} \subseteq Range(stale_ips)
            /\ todo' = stale_ips
            /\ stale_ips' = stale_ips]_vars
    /\ [](pc = "step3_lookup" =>
            /\ Len(stale_ips) <= Min(STALE_REENRICH_BATCH, hist.cycle_budget)
            /\ hist.cycle_calls + Len(todo) - InFlight("backfill") <= Len(stale_ips))

\* The fixed cap bound: more rows were stale and more budget was there than
\* STALE_REENRICH_BATCH, and that many were selected and backdated.
C12_Witness ==
    /\ pc = "step3_lookup"
    /\ Len(stale_ips) = STALE_REENRICH_BATCH
    /\ hist.cycle_budget > STALE_REENRICH_BATCH
    /\ Cardinality({ip \in DOMAIN ip_threats : ip_threats[ip].looked_up_at = "fresh"
                                                /\ ip \notin DOMAIN BatchExtras}) > 0
    /\ Cardinality({ip \in DOMAIN ip_threats : ip_threats[ip].looked_up_at = "expired"})
           = STALE_REENRICH_BATCH

\* A row the stale selection is for, the conditions written out: no usage type,
\* a score above 0, categories NULL, empty or exactly {"blacklist"}.
StaleRow(t) ==
    /\ t.abuse_usage_type = NULL
    /\ t.threat_score # NULL /\ t.threat_score[1] > 0
    /\ t.threat_categories \in {NULL, Some(<<>>), Some(<<"blacklist">>)}

HasFresh(ip) ==
    \/ ip \in DOMAIN cache
    \/ ip \in DOMAIN ip_threats /\ ip_threats[ip].looked_up_at = "fresh"

FreshRecord(ip) == IF ip \in DOMAIN cache THEN cache[ip] ELSE ip_threats[ip]

\* The step in which the backfill thread calls lookup for the next IP of its
\* loop; the one in which caller c's external call starts.
BackfillCallsLookup ==
    /\ InLoop
    /\ inflight["backfill"] = NULL
    /\ (todo' # todo \/ inflight'["backfill"] # NULL)
CallStarts(c) == inflight[c] = NULL /\ inflight'[c] # NULL

\* C14: a lookup of an IP with a non-expired record in the mirror or the
\* store, or made with remaining_budget 0, starts no external call and leaves
\* remaining_budget as it is; in the first case it returns that record (the
\* orphan loop counts it as looked up), in the second absent (counted as
\* failed).  So a call starts, for either caller, only on a miss with budget.
C14_NoCallOnHitOrNoBudget ==
    [][/\ \A c \in Callers : CallStarts(c) =>
              ~HasFresh(host(inflight'[c])) /\ remaining_budget > 0
       /\ (BackfillCallsLookup /\ (HasFresh(Head(todo)) \/ remaining_budget = 0)) =>
              /\ inflight' = inflight
              /\ remaining_budget' = remaining_budget
              /\ hist'.calls = hist.calls
              /\ ip_threats' = ip_threats /\ cache' = cache
              /\ todo' = Tail(todo)
              /\ pc = "step5_lookup" =>
                    IF HasFresh(Head(todo))
                    THEN looked_up' = looked_up + 1 /\ failed' = failed
                    ELSE looked_up' = looked_up /\ failed' = failed + 1
              /\ pc = "step3_lookup" =>
                    reenriched' = reenriched +
                        (IF HasFresh(Head(todo)) /\ FreshRecord(Head(todo)).abuse_usage_type # NULL
                         THEN 1 ELSE 0)]_vars

\* The orphan loop got a record without the thread having made a call in
\* the cycle (the live path had stored it), and then absent for the next
\* orphan, the budget being 0.
C14_Witness ==
    /\ pc = "step6"
    /\ looked_up > 0
    /\ failed > 0
    /\ hist.cycle_calls = 0
    /\ remaining_budget = 0

\* The step in which caller c's external call ends.
CallEnds(c) == inflight[c] # NULL /\ inflight'[c] = NULL

\* C15: the start of every external call takes exactly one from
\* remaining_budget, whatever the call's outcome will be, and nothing else
\* takes from it but a 429 (which zeroes it).  A call that ends stored its
\* result, for its IP, in ip_threats and in the mirror, the budget staying as
\* it is, or it changed neither; the backfill thread gets a result back (the
\* orphan counted as looked up) exactly when it is stored, and after a
\* failure (counted as failed, or raised) ip_threats is as it was.
C15_CallSpendsOne ==
    [][/\ \A c \in Callers : CallStarts(c) =>
              /\ remaining_budget' = remaining_budget - 1
              /\ ip_threats' = ip_threats /\ cache' = cache
       /\ remaining_budget' # remaining_budget =>
              \/ \E c \in Callers : CallStarts(c)
              \/ remaining_budget' = 0 /\ \E c \in Callers : CallEnds(c)
       /\ \A c \in Callers : CallEnds(c) =>
              LET ip == host(inflight[c])
                  stored == /\ remaining_budget' = remaining_budget
                            /\ ip \in DOMAIN ip_threats' /\ ip \in DOMAIN cache'
                            /\ ip_threats'[ip].looked_up_at = "fresh"
                            /\ \E r \in Responses :
                                  /\ cache'[ip] = r
                                  /\ ip_threats'[ip].threat_score = r.threat_score
                                  /\ ip_threats'[ip].threat_categories = r.threat_categories
                                  /\ \A f \in AbuseFields :
                                        r[f] # NULL => ip_threats'[ip][f] = r[f]
                            /\ \A o \in DOMAIN ip_threats \ {ip} :
                                  o \in DOMAIN ip_threats' /\ ip_threats'[o] = ip_threats[o]
                  untouched == ip_threats' = ip_threats /\ cache' = cache
              IN  /\ stored \/ untouched
                  /\ (c = "backfill" /\ pc = "step5_lookup") =>
                        /\ looked_up' = looked_up + 1 => stored
                        /\ looked_up' = looked_up => untouched
                        /\ failed' = failed + 1 => untouched
                  /\ (c = "backfill" /\ pc = "step3_lookup") =>
                        /\ reenriched' = reenriched + 1 => stored
                        /\ notice' = "cycle_failed" => untouched]_vars

\* Two calls of one cycle, one stored and one failed, took the budget from
\* 2 to 0.
C15_Witness ==
    /\ pc = "step6"
    /\ looked_up = 1 /\ failed = 1
    /\ hist.cycle_calls = 2 /\ hist.calls = 2
    /\ hist.budget0 = 2 /\ remaining_budget = 0

\* The step in which the quota window is reset: nothing else raises the budget.
WindowResets == remaining_budget' > remaining_budget

\* C16: a call answered 429 leaves remaining_budget at 0; from 0 the budget
\* moves only by the reset of the window, and until then no caller starts an
\* external call; a call that times out leaves the budget as it is (the call
\* took its one unit when it started), so while no 429 came in the window the
\* budget is what the window started with less the calls made.
C16_ThrottledUntilReset ==
    /\ [][(BackfillLookup429 \/ LiveLookup429) => remaining_budget' = 0]_vars
    /\ [][(remaining_budget = 0 /\ ~WindowResets) =>
            /\ remaining_budget' = 0
            /\ \A c \in Callers : ~CallStarts(c)]_vars
    /\ [][(BackfillLookupTimeout \/ LiveLookupTimeout \/ BackfillLookupRaises) =>
            remaining_budget' = remaining_budget]_vars
    /\ [](remaining_budget > 0 => remaining_budget + hist.calls = hist.budget0)

\* A 429 zeroed a budget that had a unit left (the window's calls are fewer
\* than its budget), and the loop's next orphan got absent without a call.
C16_Witness ==
    /\ pc = "step6"
    /\ remaining_budget = 0
    /\ hist.calls < hist.budget0
    /\ hist.cycle_calls = 1
    /\ failed = 2

\* Step 3 backdates and evicts the whole batch in one step, before the loop:
\* after it every selected IP is expired in ip_threats and out of the mirror,
\* and the thread has not called lookup yet.
ExpiredBeforeLookups ==
    StaleExpired =>
        /\ stale_ips # <<>>
        /\ \A ip \in Range(stale_ips) :
              ip_threats'[ip].looked_up_at = "expired" /\ ip \notin DOMAIN cache'
        /\ todo' = stale_ips
        /\ inflight'["backfill"] = NULL
        /\ hist'.cycle_calls = 0

UpsertData ==
    Responses \cup {SeedData(Entry(Item(Some(ip), sc))) :
                       ip \in PublicIPs, sc \in {NULL, Some(75), Some(100)}}

\* C18: whatever the seeder, the live path and the backfill thread write to
\* ip_threats and in whatever order, an abuse field of a row that is not NULL
\* is not NULL afterwards; and on every table reached, an upsert applied twice
\* gives the table it gives applied once, and so does a bulk upsert.
C18_MergeOnlyIdempotent ==
    /\ [][\A ip \in DOMAIN ip_threats \cap DOMAIN ip_threats' : \A f \in AbuseFields :
              ip_threats[ip][f] # NULL => ip_threats'[ip][f] # NULL]_vars
    /\ [](\A ip \in PublicIPs : \A r \in UpsertData :
              upsert(upsert(ip_threats, ip, r), ip, r) = upsert(ip_threats, ip, r))
    /\ [](\A data \in Payloads :
              LET once == bulk_upsert_threats(ip_threats, Entries(data))
              IN  bulk_upsert_threats(once.rows, Entries(data)) = once)

\* The seeder upserted a row that a lookup had filled: it is a blacklist row
\* now and has its abuse fields still.
C18_Witness ==
    /\ seeder.last = "stored"
    /\ \E ip \in DOMAIN ip_threats :
          /\ ip_threats[ip].threat_categories = Some(<<"blacklist">>)
          /\ ip_threats[ip].abuse_usage_type # NULL
          /\ ip \in DOMAIN cache

\* C19: no step of the backfill thread, of the seeder or of a lookup takes a
\* row out of ip_threats; the expiry of step 3 leaves every row in place and
\* takes the batch out of the mirror, and nothing else takes an entry out of
\* the mirror.
C19_StoreOnlyGrows ==
    /\ [][DOMAIN ip_threats \subseteq DOMAIN ip_threats']_vars
    /\ [][StaleExpired =>
            /\ DOMAIN ip_threats' = DOMAIN ip_threats
            /\ DOMAIN cache' = DOMAIN cache \ Range(stale_ips)]_vars
    /\ [][~(DOMAIN cache \subseteq DOMAIN cache') => StaleExpired]_vars

\* Step 3 evicted an IP whose row a lookup had filled (so the mirror had
\* it): the row is still in ip_threats.
C19_Witness ==
    /\ pc = "step3_lookup"
    /\ \E ip \in Range(stale_ips) :
          /\ ip \in DOMAIN ip_threats
          /\ ip_threats[ip].abuse_hostnames # NULL
          /\ ip \notin DOMAIN cache

\* The ways a fetch fails before anything is written: the 429 test, the
\* except clauses for a timeout, another request error and a body that does
\* not parse, and the empty-data test.
FetchFailures == {"429", "timeout", "request_error", "bad_body", "empty"}

\* C20: fetch_and_store never raises; a call that ends on a 429, a timeout,
\* another HTTP or network error, a body that does not parse or an empty
\* data list returns 0 and leaves ip_threats as it was.
C20_FetchFailureReturns0 ==
    /\ [](~seeder.raised)
    /\ [](seeder.last \in FetchFailures => seeder.returned = Some(0) /\ seeder.pc = "idle")
    /\ [][(seeder.pc = "fetching" /\ seeder'.pc = "idle" /\ seeder'.last \in FetchFailures) =>
            /\ seeder'.returned = Some(0)
            /\ ip_threats' = ip_threats]_vars
    /\ [][(seeder.pc = "fetching" /\ seeder'.pc = "idle") =>
            /\ seeder'.returned # NULL
            /\ ip_threats' # ip_threats => seeder'.last = "stored"]_vars

\* A fetch was answered 429 and returned 0, ip_threats holding the rows an
\* earlier fetch had stored.
C20_Witness ==
    /\ seeder.last = "429"
    /\ seeder.returned = Some(0)
    /\ \E ip \in DOMAIN ip_threats : ip_threats[ip].threat_score = Some(90)

\* A step in which a call of fetch_and_store that got its answer returns.
FetchReturns == seeder.pc = "fetching" /\ seeder'.pc = "idle"

\* An item of a data list that is not an entry: no object, or no ipAddress.
Malformed(item) == ~item.object \/ ~HasIp(item)

\* C21 as stated: a fetch whose data list has a malformed item (one without
\* ipAddress, say) writes nothing to ip_threats.
C21_Stated ==
    [][(FetchReturns /\ \E i \in 1..Len(seeder'.data) : Malformed(seeder'.data[i]))
          => ip_threats' = ip_threats]_vars

\* C21 as amended: a fetch whose data list has an item that is no object
\* writes nothing and returns 0; of a list of objects the items without
\* ipAddress are skipped and every other item is written, as a blacklist row
\* with its score (100 if it has none), the other rows of ip_threats staying
\* as they were; the count returned is that of the items with an ipAddress.
C21_SkipsItemsWithoutIp ==
    [][FetchReturns =>
        LET data == seeder'.data
            good == {i \in 1..Len(data) : HasIp(data[i])}
        IN  IF \E i \in 1..Len(data) : ~data[i].object
            THEN ip_threats' = ip_threats /\ seeder'.returned = Some(0)
            ELSE IF seeder'.last = "stored"
            THEN /\ \A i \in good :
                      /\ data[i].ipAddress[1] \in DOMAIN ip_threats'
                      /\ ip_threats'[data[i].ipAddress[1]].threat_categories
                            = Some(<<"blacklist">>)
                      /\ ip_threats'[data[i].ipAddress[1]].threat_score
                            = IF data[i].abuseConfidenceScore = NULL THEN Some(100)
                              ELSE data[i].abuseConfidenceScore
                 /\ \A ip \in DOMAIN ip_threats' \ {data[i].ipAddress[1] : i \in good} :
                      ip \in DOMAIN ip_threats /\ ip_threats'[ip] = ip_threats[ip]
                 /\ seeder'.returned = Some(Cardinality(good))
            ELSE ip_threats' = ip_threats /\ seeder'.returned = Some(0)]_vars

\* A fetch got an item with an ipAddress and one without: the first is stored.
C21_Witness ==
    /\ seeder.last = "stored"
    /\ seeder.returned = Some(1)
    /\ \E i \in 1..Len(seeder.data) : ~HasIp(seeder.data[i])
    /\ "3.3.3.3" \in DOMAIN ip_threats
    /\ ip_threats["3.3.3.3"].threat_score = Some(75)

\* C22: a BlacklistFetcher constructed without an API key stays without one;
\* no call of its fetch_and_store sends a request, raises or changes
\* ip_threats, and each returns 0.
C22_DisabledNoOp ==
    /\ [][seeder'.enabled = seeder.enabled]_vars
    /\ [](~seeder.enabled =>
            /\ seeder.pc = "idle"
            /\ ~seeder.requested
            /\ ~seeder.raised
            /\ seeder.returned \in {NULL, Some(0)}
            /\ seeder.last \in {"none", "disabled"})
    /\ [][(~seeder.enabled /\ seeder' # seeder) =>
            /\ seeder'.returned = Some(0)
            /\ seeder'.last = "disabled"
            /\ ip_threats' = ip_threats]_vars

\* fetch_and_store was called without an API key and returned 0, after a
\* lookup had stored a row.
C22_Witness ==
    /\ ~seeder.enabled
    /\ seeder.last = "disabled"
    /\ seeder.returned = Some(0)
    /\ hist.calls > 0
    /\ cache # EmptyTable

\* C23: no step of fetch_and_store changes remaining_budget, the mirror or
\* the calls in flight, and every row of ip_threats it inserts or changes
\* has the categories {"blacklist"} afterwards.
C23_SeederFrame ==
    [][seeder' # seeder =>
        /\ remaining_budget' = remaining_budget
        /\ cache' = cache
        /\ inflight' = inflight
        /\ \A ip \in DOMAIN ip_threats' :
              (ip \notin DOMAIN ip_threats \/ ip_threats'[ip] # ip_threats[ip])
                  => ip_threats'[ip].threat_categories = Some(<<"blacklist">>)]_vars

\* A fetch stored its rows after a lookup had spent budget and filled the
\* mirror, which still holds what the lookup put there.
C23_Witness ==
    /\ seeder.last = "stored"
    /\ seeder.returned = Some(2)
    /\ hist.calls > 0
    /\ remaining_budget = hist.budget0 - hist.calls
    /\ "2.2.2.2" \in DOMAIN cache
    /\ ip_threats["2.2.2.2"].threat_categories = Some(<<"blacklist">>)

\* C24: no step of list_threats, whatever its parameters, whether it answers
\* 200, 400 or 500, changes ip_threats, the logs table, remaining_budget or
\* the mirror, or starts an external call.
C24_ListThreatsReadOnly ==
    [][api' # api =>
        /\ ip_threats' = ip_threats
        /\ logs' = logs
        /\ remaining_budget' = remaining_budget
        /\ cache' = cache
        /\ inflight' = inflight
        /\ hist'.calls = hist.calls]_vars

\* A request was answered with the two rows of ip_threats, one of them
\* stored by a lookup of the live path.
C24_Witness ==
    /\ api.status = Some(200)
    /\ api.total = Some(2)
    /\ Len(api.threats) = 2
    /\ hist.calls > 0
    /\ cache # EmptyTable

\* Where _run_once may be next, from each place it may be at: the statements
\* of steps 1 to 7 in their order, a step without work passed over.
StepAfter(p) ==
    CASE p \in {"initial_delay", "sleep"} -> {"step1"}
      [] p = "step1" -> {"step2"}
      [] p = "step2" -> {"step3"}
      [] p = "step3" -> {"step3_expire", "step4"}
      [] p = "step3_expire" -> {"step3_lookup"}
      [] p = "step3_lookup" -> {"step4"}
      [] p = "step4" -> {"step5"}
      [] p = "step5" -> {"step5_lookup", "step6"}
      [] p = "step5_lookup" -> {"step6"}
      [] p = "step6" -> {"step6_abuse", "step7"}
      [] p = "step6_abuse" -> {"step7"}
      [] OTHER -> {}

\* C25: the thread goes through the steps of a cycle in their order, leaving
\* it only by the return of step 7, the early return of step 5 or an error;
\* a lookup of the thread is in progress only inside the loop of step 3 or
\* step 5, so that the step after a loop starts with the loop's last lookup
\* returned; and _find_orphans runs with every lookup of step 3 called and
\* returned, on the ip_threats table as it then is: it returns no IP that
\* has a row, so none of the stale batch.
C25_StepsInOrder ==
    /\ [][pc' # pc =>
            \/ pc' \in StepAfter(pc)
            \/ pc' = "sleep" /\ pc = "step7" /\ notice' \in {"complete", "nothing_to_do"}
            \/ pc' = "sleep" /\ pc = "step5" /\ notice' = "no_budget"
            \/ pc' = "sleep" /\ Running /\ notice' = "cycle_failed"]_vars
    /\ [](inflight["backfill"] # NULL => InLoop)
    /\ [](pc \in LoopPcs => todo # <<>>)
    /\ [](pc \in {"step4", "step5"} =>
            /\ todo = <<>>
            /\ Range(stale_ips) \cap hist.pending = {})
    /\ [][(pc = "step4" /\ pc' = "step5") =>
            /\ Range(orphans') = OrphanSet(logs, ip_threats)
            /\ Range(orphans') \cap DOMAIN ip_threats = {}
            /\ Range(orphans') \cap Range(stale_ips) = {}]_vars

\* Step 4 has run after a step 3 that re-enriched a row, and found an orphan.
C25_Witness ==
    /\ pc = "step5"
    /\ stale_ips # <<>>
    /\ reenriched > 0
    /\ orphans # <<>>

\* ip is an orphan of the tables as they are.
OrphanNow(ip) == ip \in OrphanSet(logs, ip_threats)

\* Row l refers to ip in column col, and is one _find_orphans reads.
RefersTo(l, col, ip) ==
    /\ l[col] # NULL /\ host(l[col]) = ip
    /\ l.threat_score = NULL /\ l.log_type = "firewall" /\ l.rule_action = "block"

OtherCol(col) == IF col = "src_ip" THEN "dst_ip" ELSE "src_ip"

\* A cycle ran to its return.
CycleReturned == pc = "sleep" /\ notice \in {"complete", "no_budget", "nothing_to_do"}

BudgetAtStep5 == []<>(pc = "step5" /\ remaining_budget > 0)

IsBlock(l) == l.log_type = "firewall" /\ l.rule_action = "block"
ScorePatchCount == IF pc = "step1" THEN patched_null' ELSE patched_final'

\* C27 as stated: patch-from-cache leaves every row that had a NULL score and
\* whose src_ip, or failing that dst_ip, has an ip_threats row with that
\* row's score and categories.
C27_Stated ==
    [][ScorePatchRan =>
        \A i \in DOMAIN logs : logs[i].threat_score = NULL =>
            /\ Has(logs[i], "src_ip") => FromRow(logs'[i], host(logs[i].src_ip))
            /\ (~Has(logs[i], "src_ip") /\ Has(logs[i], "dst_ip"))
                  => FromRow(logs'[i], host(logs[i].dst_ip))]_vars

\* C27 as amended: that holds of the rows that are firewall blocks; no such
\* row with a NULL score and an ip_threats row for its src_ip or dst_ip is
\* left; every other row is as it was; and the count returned is the number
\* of rows changed.
C27_PatchesBlockRows ==
    [][ScorePatchRan =>
        /\ \A i \in DOMAIN logs : (logs[i].threat_score = NULL /\ IsBlock(logs[i])) =>
            /\ Has(logs[i], "src_ip") => FromRow(logs'[i], host(logs[i].src_ip))
            /\ (~Has(logs[i], "src_ip") /\ Has(logs[i], "dst_ip"))
                  => FromRow(logs'[i], host(logs[i].dst_ip))
        /\ \A i \in DOMAIN logs : (logs'[i].threat_score = NULL /\ IsBlock(logs'[i])) =>
              ~Has(logs'[i], "src_ip") /\ ~Has(logs'[i], "dst_ip")
        /\ \A i \in DOMAIN logs : (logs[i].threat_score # NULL \/ ~IsBlock(logs[i])) =>
              logs'[i] = logs[i]
        /\ ScorePatchCount = Cardinality({i \in DOMAIN logs : logs'[i] # logs[i]})]_vars

\* Step 1 patched row 1 alone, from its dst_ip: its src_ip has no row.
C27_Witness ==
    /\ pc = "step2"
    /\ patched_null = 1
    /\ "1.1.1.1" \notin DOMAIN ip_threats
    /\ logs[1].threat_score = Some(100)
    /\ logs[1].threat_categories = Some(<<"blacklist">>)

\* C28: patch-from-cache leaves every abuse column of a NULL-score row that is
\* not NULL as it is, whatever the ip_threats row holds, and gives the
\* columns that are NULL on a row it patches the ip_threats row's values.
C28_ScorePatchKeepsDetail ==
    [][ScorePatchRan =>
        \A i \in DOMAIN logs : logs[i].threat_score = NULL =>
            \A f \in AbuseFields :
                /\ logs[i][f] # NULL => logs'[i][f] = logs[i][f]
                /\ (logs[i][f] = NULL /\ logs'[i] # logs[i]) =>
                      \E col \in {"src_ip", "dst_ip"} :
                          /\ Has(logs[i], col)
                          /\ FromRow(logs'[i], host(logs[i][col]))
                          /\ logs'[i][f] = ip_threats[host(logs[i][col])][f]]_vars

\* Step 1 gave the row its score from a verbose ip_threats row; the abuse
\* fields the row had are as they were, its usage type is the cache's.
C28_Witness ==
    /\ pc = "step2"
    /\ patched_null = 1
    /\ logs[1].threat_score = Some(80)
    /\ logs[1].abuse_usage_type = Some(2)
    /\ logs[1].abuse_hostnames = Some(7)
    /\ ip_threats["1.1.1.1"].abuse_hostnames = Some(2)

\* The ip_threats row patch-abuse-fields is said to match a row with: that of
\* its src_ip if there is one, else that of its dst_ip (NULL: none).
Matching(l) ==
    IF Has(l, "src_ip") THEN Some(ip_threats[host(l.src_ip)])
    ELSE IF Has(l, "dst_ip") THEN Some(ip_threats[host(l.dst_ip)])
    ELSE NULL

\* C29 as stated: after patch-abuse-fields no row with a score has an abuse
\* column NULL that its matching ip_threats row has populated, for each of
\* the six columns.
C29_Stated ==
    [][AbusePatchRan =>
        \A i \in DOMAIN logs : \A f \in AbuseFields :
            (logs'[i].threat_score # NULL /\ logs'[i][f] = NULL) =>
                (Matching(logs[i]) = NULL \/ Matching(logs[i])[1][f] = NULL)]_vars

\* The ip_threats row a pass of patch-abuse-fields takes for a row: that of
\* src_ip if it has a usage type, else that of dst_ip if it has one.
AbuseSource(l) ==
    IF Has(l, "src_ip") /\ ip_threats[host(l.src_ip)].abuse_usage_type # NULL
    THEN Some(ip_threats[host(l.src_ip)])
    ELSE IF Has(l, "dst_ip") /\ ip_threats[host(l.dst_ip)].abuse_usage_type # NULL
    THEN Some(ip_threats[host(l.dst_ip)])
    ELSE NULL

\* C29 as amended: the step acts on the firewall blocks that have a score and
\* no usage type, and reads the usage type alone: after it no such row has
\* its usage type NULL while the row of its src_ip or of its dst_ip has one;
\* a row it patches gets all six columns of the first of the two that has a
\* usage type; every other row, one with a usage type and another abuse
\* column NULL included, is left as it was; the count is that of the rows
\* changed.
C29_UsageTypeRepaired ==
    [][AbusePatchRan =>
        /\ \A i \in DOMAIN logs :
              (IsBlock(logs'[i]) /\ logs'[i].threat_score # NULL
                  /\ logs'[i].abuse_usage_type = NULL) => AbuseSource(logs[i]) = NULL
        /\ \A i \in DOMAIN logs : logs'[i] # logs[i] =>
              /\ IsBlock(logs[i]) /\ logs[i].threat_score # NULL
              /\ logs[i].abuse_usage_type = NULL
              /\ AbuseSource(logs[i]) # NULL
              /\ \A f \in AbuseFields : logs'[i][f] = AbuseSource(logs[i])[1][f]
        /\ \A i \in DOMAIN logs :
              (~IsBlock(logs[i]) \/ logs[i].threat_score = NULL
                  \/ logs[i].abuse_usage_type # NULL) => logs'[i] = logs[i]
        /\ (pc = "step2") =>
              patched_abuse' = Cardinality({i \in DOMAIN logs : logs'[i] # logs[i]})]_vars

\* Step 2 gave a scored row the abuse fields of its dst_ip's row, that of its
\* src_ip having no usage type.
C29_Witness ==
    /\ pc = "step3"
    /\ patched_abuse = 1
    /\ logs[1].threat_score = Some(50)
    /\ logs[1].abuse_usage_type = Some(2)
    /\ "1.1.1.1" \in DOMAIN ip_threats
    /\ ip_threats["1.1.1.1"].abuse_usage_type = NULL
    /\ ip_threats["2.2.2.2"].abuse_usage_type = Some(2)

\* The orphans step 5 took: the first of the list, as many as were not skipped.
Taken == SubSeq(orphans, 1, Len(orphans) - skipped)

\* C30: step 5, run with a budget b > 0 on n orphans, takes the first
\* min(b, n) of the list and counts the n - min(b, n) others as skipped; its
\* loop calls lookup on those it took, one after the other in the list's
\* order, each once (no IP is twice in the list); a lookup that returns adds
\* one to looked_up if it returned a result (there is a row for the IP then)
\* and one to failed if it returned none (it stored nothing); so the loop ends with looked_up + failed =
\* min(b, n); and the next cycle starts with no trace of the skipped ones.
C30_OrphanLookupCounts ==
    /\ [][(pc = "step5" /\ pc' \in {"step5_lookup", "step6"} /\ remaining_budget > 0) =>
            /\ todo' = SubSeq(orphans, 1, Min(remaining_budget, Len(orphans)))
            /\ skipped' = Len(orphans) - Min(remaining_budget, Len(orphans))
            /\ looked_up' = 0 /\ failed' = 0]_vars
    /\ [](\A i, j \in 1..Len(orphans) : i # j => orphans[i] # orphans[j])
    /\ [](pc = "step5_lookup" =>
            /\ todo # <<>>
            /\ todo = SubSeq(Taken, looked_up + failed + 1, Len(Taken)))
    /\ [](pc \in {"step6", "step6_abuse", "step7"} =>
            /\ looked_up + failed = Len(Taken)
            /\ skipped = Len(orphans) - Len(Taken))
    /\ [][(pc = "step5_lookup" /\ looked_up' + failed' # looked_up + failed) =>
            /\ looked_up' + failed' = looked_up + failed + 1
            /\ todo' = Tail(todo)
            /\ looked_up' # looked_up =>
                  Head(todo) \in DOMAIN ip_threats' \cup DOMAIN cache'
            /\ failed' # failed =>
                  (ip_threats' = ip_threats /\ cache' = cache)]_vars
    /\ [][(pc = "sleep" /\ pc' = "step1") =>
            (skipped' = 0 /\ orphans' = <<>> /\ todo' = <<>>)]_vars

\* Step 5 ran with a budget of 2 on three orphans: one looked up, one failed,
\* one skipped.
C30_Witness ==
    /\ pc = "step6"
    /\ Len(orphans) = 3
    /\ skipped = 1
    /\ looked_up = 1
    /\ failed = 1
    /\ stale_ips = <<>>

\* A lookup of the stale loop returns to the loop (it did not raise).
StaleLookupReturns == pc = "step3_lookup" /\ todo' = Tail(todo) /\ pc' # "sleep"
\* 1 if the result (NULL: absent) has a usage type, else 0.
Populated(result) == IF result # NULL /\ result[1].abuse_usage_type # NULL THEN 1 ELSE 0

\* C31: step 3 starts its count at 0 and adds one for each lookup of the
\* batch that returned a result with a usage type, and nothing for the
\* others: a lookup answered from the mirror or the store counts by that
\* record, one that returned absent on a 429 counts nothing, one whose
\* external call stored data counts by that data; a lookup is counted only
\* if the stored row has a usage type then; and when the call made for a row
\* of the batch answers with a usage type, the row gets it with the answer's
\* score, is stale no more and is counted.
C31_ReenrichedCount ==
    /\ [](pc \in {"step1", "step2", "step3", "step3_expire"} => reenriched = 0)
    /\ [](pc = "step3_lookup" => reenriched <= Len(stale_ips) - Len(todo))
    /\ [][StaleLookupReturns =>
            LET ip == Head(todo) IN
            /\ reenriched' - reenriched \in {0, 1}
            /\ reenriched' = reenriched + 1 =>
                  (ip \in DOMAIN ip_threats' /\ ip_threats'[ip].abuse_usage_type # NULL)
            /\ inflight["backfill"] = NULL =>
                  reenriched' = reenriched + Populated(Cached(ip))
            /\ (inflight["backfill"] # NULL /\ remaining_budget' # remaining_budget) =>
                  reenriched' = reenriched
            /\ (inflight["backfill"] # NULL /\ <<ip_threats', cache'>> # <<ip_threats, cache>>) =>
                  /\ reenriched' = reenriched + Populated(Some(cache'[ip]))
                  /\ \A f \in {"threat_score", "threat_categories"} :
                        ip_threats'[ip][f] = cache'[ip][f]
                  /\ Populated(Some(cache'[ip])) = 1 =>
                        (ip_threats'[ip].abuse_usage_type = cache'[ip].abuse_usage_type
                         /\ ~IsStale(ip_threats'[ip]))]_vars
    /\ [][(pc \in {"step4", "step5", "step5_lookup", "step6", "step6_abuse", "step7"}) =>
            reenriched' = reenriched]_vars

\* Step 3 took the pre-verbose row and the blacklist seed: the call for the
\* first answered with a usage type and is counted, the other got none.
C31_Witness ==
    /\ pc = "step4"
    /\ Len(stale_ips) = 2
    /\ reenriched = 1
    /\ ip_threats["1.1.1.1"].abuse_usage_type = Some(2)
    /\ ip_threats["1.1.1.1"].threat_score = Some(80)
    /\ ip_threats["2.2.2.2"].abuse_usage_type = NULL

\* C32: the thread starts in an initial delay of INITIAL_DELAY_SECONDS and
\* runs no cycle before it has passed; every end of a cycle, by its summary,
\* by the early return of step 5 or by an error, is the start of a sleep of
\* BACKFILL_INTERVAL_SECONDS; a sleep gets shorter only as time passes and
\* ends only when nothing is left of it, with the start of the next cycle;
\* and a cycle starts only while none is running.
C32_SleepsFullInterval ==
    /\ (pc = "initial_delay" /\ timer = INITIAL_DELAY_SECONDS)
    /\ [][(Running /\ ~Running') => (pc' = "sleep" /\ timer' = BACKFILL_INTERVAL_SECONDS)]_vars
    /\ [][(Sleeping /\ pc' = pc) => (timer' <= timer /\ timer - timer' <= TickSeconds)]_vars
    /\ [][(Sleeping /\ pc' # pc) => (timer = 0 /\ pc' = "step1")]_vars
    /\ [][(pc # "step1" /\ pc' = "step1") => Sleeping]_vars
    /\ [](Running => timer = 0)

\* A cycle failed and the sleep that followed it has passed in full.
C32_Witness ==
    /\ pc = "sleep"
    /\ notice = "cycle_failed"
    /\ timer = 0

\* The counts of the summary are all 0.
AllCountsZero ==
    /\ patched_null = 0 /\ patched_abuse = 0 /\ reenriched = 0
    /\ looked_up = 0 /\ failed = 0 /\ skipped = 0 /\ patched_final = 0
\* The thread leaves _run_once: the cycle ends.
CycleEnds == Running /\ ~Running'

\* C33 as stated: a cycle that ended without an exception logged "nothing to
\* do" if and only if all its counts are 0.
C33_Stated ==
    (pc = "sleep" /\ notice \in {"complete", "nothing_to_do", "no_budget"}) =>
        (notice = "nothing_to_do" <=> AllCountsZero)

\* C33: a cycle logs nothing until it ends and one line when it ends.  A
\* cycle that ends without an exception ends at step 7 or at the early return
\* of step 5.  At step 7 it logs "nothing to do" if all the counts are 0 and
\* the summary of the seven counts (which it leaves as they are) if one is
\* not.  At the early return of step 5 (orphans, no budget) it logs the
\* "orphans pending but no API budget" line, whatever the counts.
C33_SummaryAtStep7 ==
    /\ [](Running => notice = "none")
    /\ [][CycleEnds =>
            /\ notice' \in {"complete", "nothing_to_do", "no_budget", "cycle_failed"}
            /\ notice' # "cycle_failed" => pc \in {"step5", "step7"}
            /\ pc = "step7" =>
                  /\ notice' \in {"complete", "nothing_to_do"}
                  /\ notice' = "nothing_to_do" <=> AllCountsZero
                  /\ counts' = counts
            /\ (pc = "step5" /\ notice' # "cycle_failed") =>
                  /\ notice' = "no_budget"
                  /\ orphans # <<>> /\ remaining_budget = 0
                  /\ counts' = counts]_vars
    /\ [][notice' # notice => (CycleEnds \/ (~Running /\ Running' /\ notice' = "none"))]_vars
    /\ [](notice = "nothing_to_do" => AllCountsZero)
    /\ [](notice = "complete" => ~AllCountsZero)

\* A cycle found an orphan and no budget, having patched nothing: it ended
\* on the "no API budget" line with all its counts at 0.
C33_Witness ==
    /\ pc = "sleep"
    /\ notice = "no_budget"
    /\ AllCountsZero
    /\ orphans # <<>>

\* C34: with the thread scheduled, time passing and every call ending, a
\* running cycle comes to its end and a sleeping thread comes to start a
\* cycle, again and again; a lookup loop gets shorter with every lookup that
\* returns, the stale loop has at most STALE_REENRICH_BATCH addresses, and
\* the thread makes no more external calls in a cycle than the budget the
\* cycle started with.
C34_CyclesTerminate ==
    /\ [](Running => <>Sleeping)
    /\ [](Sleeping => <>Running)
    /\ []<>(pc = "step1")
    /\ [](Len(stale_ips) <= STALE_REENRICH_BATCH /\ Len(todo) <= Len(stale_ips) + Len(orphans))
    /\ [](Running => hist.cycle_calls <= hist.cycle_budget)
    /\ [][(pc \in LoopPcs /\ todo' # todo) => Len(todo') < Len(todo)]_vars

\* A cycle that made an external call has ended on its summary, and the
\* sleep after it has passed: the next cycle is due.
C34_Witness ==
    /\ pc = "sleep"
    /\ timer = 0
    /\ notice = "complete"
    /\ hist.cycle_calls >= 1

\* The table T with every row past its TTL.
AllExpired(T) == [ip \in DOMAIN T |-> [T[ip] EXCEPT !.looked_up_at = "expired"]]

\* C35: the step of step 3 that backdates the batch leaves the table with
\* the same rows, those of the batch differing by looked_up_at alone and the
\* others not at all, and leaves the logs as they are; as long as a row is
\* past its TTL, whatever happens (a lookup that is answered from no call,
\* refused, timed out or raising, in the loop or from the live path), it
\* holds the score, categories and abuse fields it had; a lookup of the loop
\* that returns without a call or on a 429 leaves the table as it is; and
\* what the two patches write does not depend on looked_up_at.
C35_ForceExpireFrame ==
    /\ [][StaleExpired =>
            /\ DOMAIN ip_threats' = DOMAIN ip_threats
            /\ \A ip \in DOMAIN ip_threats :
                  ip_threats'[ip] = IF ip \in Range(stale_ips)
                                    THEN [ip_threats[ip] EXCEPT !.looked_up_at = "expired"]
                                    ELSE ip_threats[ip]
            /\ logs' = logs]_vars
    /\ [][\A ip \in DOMAIN ip_threats' :
            ip_threats'[ip].looked_up_at = "expired" =>
                (ip \in DOMAIN ip_threats /\ Result(ip_threats'[ip]) = Result(ip_threats[ip]))]_vars
    /\ [][(StaleLookupReturns /\ (inflight["backfill"] = NULL \/ remaining_budget' # remaining_budget)) =>
            ip_threats' = ip_threats]_vars
    /\ [](/\ patch_from_cache(logs, AllExpired(ip_threats)) = patch_from_cache(logs, ip_threats)
          /\ patch_abuse_fields(logs, AllExpired(ip_threats)) = patch_abuse_fields(logs, ip_threats))

\* The row of 3.3.3.3, stored by the live path during a cycle, was backdated
\* by step 3 and its re-lookup got no answer; step 1 of a later cycle has
\* patched a log from it.
C35_Witness ==
    /\ pc = "step2"
    /\ patched_null >= 1
    /\ DOMAIN ip_threats = {"3.3.3.3"}
    /\ ip_threats["3.3.3.3"].looked_up_at = "expired"
    /\ logs[2].threat_score = ip_threats["3.3.3.3"].threat_score

\* C36: when the thread leaves the start of step 3 (not by a store error)
\* with remaining_budget 0 or with no stale row in ip_threats, it goes to
\* step 4 with reenriched 0 and an empty batch, and that step changes no row
\* of ip_threats or of logs, no entry of the mirror and not the budget, and
\* starts no call; nothing is left to look up.
C36_Step3NoOp ==
    /\ [][(/\ pc = "step3" /\ pc' \notin {"step3", "sleep"}
           /\ (remaining_budget = 0 \/ StaleCandidates(ip_threats) = {})) =>
            /\ pc' = "step4"
            /\ reenriched' = 0
            /\ stale_ips' = <<>> /\ todo' = <<>>
            /\ ip_threats' = ip_threats /\ logs' = logs
            /\ cache' = cache
            /\ remaining_budget' = remaining_budget
            /\ inflight' = inflight
            /\ hist'.calls = hist.calls /\ hist'.pending = hist.pending]_vars
    /\ [](pc = "step3_expire" => stale_ips # <<>>)
    /\ [](pc \in {"step3_expire", "step3_lookup"} => hist.cycle_budget > 0)

\* Step 3 returned 0 in a cycle that started without budget, with a stale
\* row in ip_threats, which is still within its TTL.
C36_Witness ==
    /\ pc = "step4"
    /\ hist.cycle_budget = 0
    /\ stale_ips = <<>>
    /\ reenriched = 0
    /\ "1.1.1.1" \in DOMAIN ip_threats
    /\ IsStale(ip_threats["1.1.1.1"])
    /\ ip_threats["1.1.1.1"].looked_up_at = "fresh"

OnLogs(ip) ==
    \E i \in DOMAIN logs : \E col \in {"src_ip", "dst_ip"} :
        logs[i][col] # NULL /\ host(logs[i][col]) = ip

\* C38 as stated, where only the thread calls lookup.  An IP that is on no
\* log is never an orphan, so the mirror holds an entry for it only when a
\* re-lookup of step 3 for it was answered with data; such an IP is not
\* selected as stale again.
C38_Stated ==
    [][StaleSelected =>
        \A ip \in Range(stale_ips') : (OnLogs(ip) \/ ip \notin DOMAIN cache)]_vars

\* C38: step 3 selects rows that are stale when it selects (no usage type,
\* categories NULL, empty or blacklist-only, a score above 0), whatever was
\* looked up before; a row that has a usage type keeps one, so a row whose
\* re-lookup was answered with a usage type is never selected again; a row
\* whose re-lookup was answered without one, with a score above 0 and no
\* category, is stale as before; and with budget and a stale row in the
\* table, step 3 selects a batch.
C38_StaleUntilUsageType ==
    /\ [][StaleSelected =>
            \A ip \in Range(stale_ips') :
                /\ ip \in DOMAIN ip_threats
                /\ ip_threats[ip].abuse_usage_type = NULL
                /\ ip_threats[ip].threat_categories \in {NULL, Some(<<>>), Some(<<"blacklist">>)}
                /\ ip_threats[ip].threat_score # NULL /\ ip_threats[ip].threat_score[1] > 0]_vars
    /\ [][\A ip \in DOMAIN ip_threats :
            ip_threats[ip].abuse_usage_type # NULL =>
                (ip \in DOMAIN ip_threats' /\ ip_threats'[ip].abuse_usage_type # NULL)]_vars
    /\ [][(StaleLookupReturns /\ ip_threats' # ip_threats) =>
            LET ip == Head(todo) IN
            /\ cache'[ip].abuse_usage_type # NULL => ip \notin StaleCandidates(ip_threats')
            /\ (/\ cache'[ip].abuse_usage_type = NULL
                /\ ip_threats[ip].abuse_usage_type = NULL
                /\ cache'[ip].threat_categories = Some(<<>>)
                /\ cache'[ip].threat_score[1] > 0) => ip \in StaleCandidates(ip_threats')]_vars
    /\ [][(/\ pc = "step3" /\ pc' \notin {"step3", "sleep"}
           /\ remaining_budget > 0 /\ StaleCandidates(ip_threats) # {}) =>
            (pc' = "step3_expire" /\ stale_ips' # <<>>)]_vars

\* The re-lookup of 3.3.3.3 was answered with a usage type; the step 3 of a
\* later cycle, with budget, has selected nothing.
C38_Witness ==
    /\ pc = "step4"
    /\ remaining_budget > 0
    /\ stale_ips = <<>>
    /\ "3.3.3.3" \in DOMAIN cache
    /\ ip_threats["3.3.3.3"].abuse_usage_type # NULL

\* The ip_threats row the read query takes a log's missing fields from: that
\* of src_ip for an inbound log, that of dst_ip for an outbound one, else
\* that of src_ip if there is one and that of dst_ip if not; NULL if the join
\* found none or the address is one of the WAN's.
ReadSource(l, wan) ==
    LET t1 == DetailJoin(l, ip_threats, "src_ip", wan)
        t2 == DetailJoin(l, ip_threats, "dst_ip", wan)
    IN  CASE l.direction = "inbound" -> t1
          [] l.direction = "outbound" -> t2
          [] OTHER -> IF t1 # NULL THEN t1 ELSE t2
\* Step 2 runs while the API's last answer is the detail of the row.
PatchAfterRead == pc = "step2" /\ pc' = "step3" /\ api.status = Some(200)
\* The WAN addresses of that request; the log it showed.
ReadWan == api.params[1].wan_ips
Shown == api.threats[1]

\* C39 as stated: when step 2 runs after a read of the row, every abuse
\* field that was NULL on the row was shown with the value the step writes
\* if it patches the row, and is shown with the same value by a read after
\* the step.
C39_Stated ==
    [][PatchAfterRead =>
        \A f \in AbuseFields :
            logs[1][f] = NULL =>
                /\ logs'[1] # logs[1] => Shown[f] = serialize_log(logs'[1])[f]
                /\ Shown[f] = serialize_log(LogDetailRow(logs'[1], ip_threats', ReadWan))[f]]_vars

\* C39: a read before step 2 shows the row as the SELECT gives it.  When
\* step 2 patches a row whose six abuse fields are NULL and the read took
\* them from the ip_threats row step 2 takes (the first of src_ip's and
\* dst_ip's that has a usage type), each was shown with the value step 2
\* writes and is shown so after it.  The two rows are the same for an
\* inbound log whose src_ip row has a usage type, and for an outbound log
\* whose src_ip row has none and whose dst_ip row has one, the address not
\* being one of the WAN's.
C39_SameRecordSameDetails ==
    /\ []((pc = "step2" /\ api.status = Some(200)) =>
            Shown = serialize_log(LogDetailRow(logs[1], ip_threats, ReadWan)))
    /\ [][(PatchAfterRead /\ logs'[1] # logs[1]) =>
            ((/\ \A f \in AbuseFields : logs[1][f] = NULL
              /\ ReadSource(logs[1], ReadWan) = AbuseSource(logs[1])) =>
                \A f \in AbuseFields :
                    /\ Shown[f] = serialize_log(logs'[1])[f]
                    /\ Shown[f] = serialize_log(LogDetailRow(logs'[1], ip_threats', ReadWan))[f])]_vars
    /\ []((pc = "step2" /\ api.status = Some(200) /\ AbuseSource(logs[1]) # NULL) =>
            LET l == logs[1]
                usage(col) == IF Has(l, col) THEN ip_threats[host(l[col])].abuse_usage_type ELSE NULL
            IN  /\ (/\ l.direction = "inbound" /\ usage("src_ip") # NULL
                    /\ host(l.src_ip) \notin ReadWan) =>
                        ReadSource(l, ReadWan) = AbuseSource(l)
                /\ (/\ l.direction = "outbound" /\ usage("src_ip") = NULL
                    /\ usage("dst_ip") # NULL /\ host(l.dst_ip) \notin ReadWan) =>
                        ReadSource(l, ReadWan) = AbuseSource(l))

\* An outbound block with a score and no abuse field, whose dst_ip alone has
\* an ip_threats row, was read and patched: the answer and the row agree.
C39_Witness ==
    /\ pc = "step3"
    /\ patched_abuse = 1
    /\ api.status = Some(200)
    /\ logs[1].direction = "outbound"
    /\ DOMAIN ip_threats = {"2.2.2.2"}
    /\ logs[1].abuse_usage_type = Some(2)
    /\ \A f \in AbuseFields : Shown[f] = serialize_log(logs[1])[f]
    /\ Shown.abuse_last_reported = Some(IsoOf(2))

\* No call has overlapped another and no DELETE has raised.
OneAtATime == ~audit.overlap /\ ~audit.delfail

====
